---- MODULE Spec2Model ----
(***************************************************************************)
(* The ephemeral coding-assistant worker of webedt/docker-claude-code:     *)
(* the HTTP front door (src/src/server.ts, POST /execute) and the job      *)
(* pipeline Orchestrator.execute with its event sink sendEvent             *)
(* (src/unnamed/part_000, the MinIO-backed orchestrator).                  *)
(*                                                                         *)
(* Strings the code trims, lower-cases or tests for emptiness are          *)
(* sequences of one-character strings.  Error messages, which the code     *)
(* only searches for fixed phrases, are sequences of words.                *)
(*                                                                         *)
(* Spec is one process lifetime with every failure of the external         *)
(* collaborators, of the local log and of the client connection.  SpecSeq  *)
(* is several process lifetimes in a row over the same durable storage     *)
(* and remote sink, with collaborators that do not fail.  SpecVolume is    *)
(* the volume-based worker (src/unified-worker) over several process       *)
(* lifetimes, with a volume that may be pruned between them.               *)
(***************************************************************************)
EXTENDS Integers, Sequences, FiniteSets, TLC

(***************************************************************************)
(* Bounds of the exploration.                                              *)
(***************************************************************************)
\* process lifetimes (one job each) explored in a row
MaxJobs == 2
\* failed appends to an existing local per-session log explored
MaxLogFail == 1
\* events the execution capability emits in one run
MaxProviderEvents == 2
\* saves and loads of metadata records explored in a row
MaxMetadataCalls == 3
\* calls of pullRepository explored in a row
MaxGitCalls == 3

(***************************************************************************)
(* Strings.                                                                *)
(***************************************************************************)
\* a field that is absent from the JSON body (JavaScript undefined)
Undefined == <<"undefined-value">>
Empty == <<>>
Blank == <<" ", " ">>
SomeText == <<"f", "i", "x">>
FromEnv == <<"F", "R", "O", "M", "_", "E", "N", "V">>
ClaudeCode == <<"c", "l", "a", "u", "d", "e", "-", "c", "o", "d", "e">>
Codex == <<"c", "o", "d", "e", "x">>
Cursor == <<"c", "u", "r", "s", "o", "r">>
Gpt == <<"g", "p", "t">>
RepoUrl == <<"h", "t", "t", "p", "s", ":", "/", "/", "g", "/", "r">>

\* JavaScript truthiness of an optional string: !s
Falsy(s) == s = Undefined \/ s = Empty

RECURSIVE TrimStart(_)
TrimStart(s) ==
  IF s # <<>> /\ Head(s) = " " THEN TrimStart(Tail(s)) ELSE s

RECURSIVE TrimEnd(_)
TrimEnd(s) ==
  IF s # <<>> /\ s[Len(s)] = " " THEN TrimEnd(SubSeq(s, 1, Len(s) - 1)) ELSE s

\* String.prototype.trim
Trim(s) == TrimEnd(TrimStart(s))

LowerOf(c) ==
  CASE c = "C" -> "c"
    [] c = "F" -> "f"
    [] c = "R" -> "r"
    [] c = "O" -> "o"
    [] c = "M" -> "m"
    [] c = "E" -> "e"
    [] c = "N" -> "n"
    [] c = "V" -> "v"
    [] OTHER -> c

\* String.prototype.toLowerCase
ToLowerCase(s) == [i \in 1..Len(s) |-> LowerOf(s[i])]

\* String.prototype.includes on word sequences: needle is a contiguous part
Includes(msg, needle) ==
  \E i \in 1..(Len(msg) - Len(needle) + 1) :
    SubSeq(msg, i, i + Len(needle) - 1) = needle

(***************************************************************************)
(* ProviderFactory.                                                        *)
(***************************************************************************)
getSupportedProviders == {ClaudeCode, Codex, Cursor}

isProviderSupported(providerName) ==
  Trim(ToLowerCase(providerName)) \in getSupportedProviders

(***************************************************************************)
(* Requests.  github: NoGithub or [repoUrl]; resumeSessionId: NoResume or  *)
(* a session id; database: NoDatabase or [sessionId, accessToken];         *)
(* autoCommit: "unset", "true" or "false"; authentication: the features of *)
(* the opaque credential string that the code inspects.                    *)
(***************************************************************************)
NoGithub == [repoUrl |-> Undefined, present |-> FALSE]
NoDatabase == [sessionId |-> Undefined, accessToken |-> Undefined, present |-> FALSE]
NoResume == -1
DbSessionId == <<"d", "b", "1">>
DbToken == <<"t", "k">>

\* credential strings: the text the code trims and the form extractApiKey
\* finds when it parses it ("oauth": {claudeAiOauth: {accessToken}},
\* "apiKeyObject": {apiKey}, "otherJson": any other JSON, "skAnt": not JSON
\* and starting with sk-ant-, "plain": not JSON, any other text)
AuthUndefined == [text |-> Undefined, form |-> "plain"]
AuthBlank == [text |-> Blank, form |-> "plain"]
AuthOauth == [text |-> <<"{", "o", "}">>, form |-> "oauth"]
AuthOpaque == [text |-> <<"o", "p">>, form |-> "plain"]

NoRequest ==
  [userRequest |-> Undefined, codingAssistantProvider |-> Undefined,
   codingAssistantAuthentication |-> AuthUndefined, resumeSessionId |-> NoResume,
   github |-> NoGithub, database |-> NoDatabase, autoCommit |-> "unset"]

(***************************************************************************)
(* Error messages, as word sequences.  NoError stands for "nothing was     *)
(* thrown".                                                                *)
(***************************************************************************)
NoError == <<>>
MsgUserRequestRequired == <<"userRequest", "is", "required">>
MsgProviderRequired == <<"codingAssistantProvider", "is", "required">>
MsgAuthenticationRequired == <<"codingAssistantAuthentication", "is", "required">>
MsgUnsupportedProvider ==
  <<"Unsupported", "provider", ":", "<name>", ".", "Supported", "providers", ":",
    "claude-code", ",", "codex", ",", "cursor">>
MsgCannotProvideBoth ==
  <<"Cannot", "provide", "both", "\"", "github", "\"", "and", "\"", "resumeSessionId",
    "\"", ".", "When", "resuming", "a", "session", ",", "the", "repository", "is",
    "already", "available", "in", "the", "session", "workspace", ".">>
MsgRepoUrlRequired ==
  <<"github.repoUrl", "is", "required", "when", "github", "integration", "is",
    "enabled">>
MsgDbSessionIdRequired ==
  <<"database.sessionId", "is", "required", "when", "database", "persistence", "is",
    "enabled">>
MsgDbAccessTokenRequired ==
  <<"database.accessToken", "is", "required", "when", "database", "persistence",
    "is", "enabled">>
\* failures of the external collaborators (their texts are the collaborators')
MsgStorageDown == <<"connect", "ECONNREFUSED", "minio">>
MsgCloneFailed == <<"fatal", ":", "could", "not", "read", "from", "remote">>
MsgStatusUpdateFailed == <<"request", "failed", "with", "status", "code", "500">>
MsgCapabilityFailed == <<"process", "exited", "with", "code", "1">>

(***************************************************************************)
(* Orchestrator.validateRequest: the message of the Error it throws, or    *)
(* NoError.                                                                *)
(***************************************************************************)
validateRequest(request) ==
  IF Falsy(request.userRequest) \/ Trim(request.userRequest) = Empty
    THEN MsgUserRequestRequired
  ELSE IF Falsy(request.codingAssistantProvider)
          \/ Trim(request.codingAssistantProvider) = Empty
    THEN MsgProviderRequired
  ELSE IF Falsy(request.codingAssistantAuthentication.text)
          \/ Trim(request.codingAssistantAuthentication.text) = Empty
    THEN MsgAuthenticationRequired
  ELSE IF ~isProviderSupported(request.codingAssistantProvider)
    THEN MsgUnsupportedProvider
  ELSE IF request.github.present /\ request.resumeSessionId # NoResume
    THEN MsgCannotProvideBoth
  ELSE IF request.github.present
          /\ (Falsy(request.github.repoUrl) \/ Trim(request.github.repoUrl) = Empty)
    THEN MsgRepoUrlRequired
  ELSE IF request.database.present
          /\ (Falsy(request.database.sessionId)
              \/ Trim(request.database.sessionId) = Empty)
    THEN MsgDbSessionIdRequired
  ELSE IF request.database.present
          /\ (Falsy(request.database.accessToken)
              \/ Trim(request.database.accessToken) = Empty)
    THEN MsgDbAccessTokenRequired
  ELSE NoError

(***************************************************************************)
(* Orchestrator.getErrorCode: the first matching phrase decides.           *)
(***************************************************************************)
getErrorCode(message) ==
  IF Includes(message, <<"Session", "not", "found">>) THEN "session_not_found"
  ELSE IF Includes(message, <<"token">>) THEN "auth_error"
  ELSE IF Includes(message, <<"repository">>) \/ Includes(message, <<"not", "found">>)
    THEN "repo_not_found"
  ELSE IF Includes(message, <<"Cannot", "provide", "both">>) THEN "invalid_request"
  ELSE "internal_error"

\* Orchestrator.extractApiKey returns a key (TRUE) or null (FALSE)
extractApiKey(authentication) ==
  authentication.form \in {"oauth", "apiKeyObject", "skAnt"}

(***************************************************************************)
(* Session metadata, the local session directory and durable storage.      *)
(***************************************************************************)
NoRepoInfo ==
  [present |-> FALSE, branch |-> "none", branchName |-> "none", clonedPath |-> "none"]
NoMetadata ==
  [sessionId |-> -1, provider |-> Undefined, sessionName |-> "none",
   providerSessionId |-> "none", github |-> NoRepoInfo]
\* a directory that does not exist / a directory just created
NoLog == [root |-> 0, repo |-> 0]
NoDir == [exists |-> FALSE, meta |-> NoMetadata, log |-> NoLog, commits |-> 0]
EmptyDir == [exists |-> TRUE, meta |-> NoMetadata, log |-> NoLog, commits |-> 0]

\* session ids: the id uuidv4() gives the job of the j-th process is j; 0 is an
\* id no job ever generated
SessionIdSet == 0..MaxJobs
ResumeIds == 0..1

\* an event of the stream; message is the text of an error event
Event(type, detail) == [type |-> type, detail |-> detail, message |-> NoError]

\* an error event that hides the message of the error
ErrorEventUnknown(m) ==
  [type |-> "error", detail |-> getErrorCode(m), message |-> <<"Unknown", "error">>]

\* the error event of the catch block: error.message and getErrorCode(error)
ErrorEvent(m) == [type |-> "error", detail |-> getErrorCode(m), message |-> m]

(***************************************************************************)
(* The volume-based worker (src/unified-worker): sessions live in          *)
(* directories of a persistent volume.  A path is the sequence of its      *)
(* segments below the workspace root.                                      *)
(***************************************************************************)
BranchMain == <<"m", "a", "i", "n">>
BranchFeature == <<"f", "t">>
Directory == <<"d">>

\* SessionMetadata without github / loadMetadata's null
NoGithubInfo ==
  [present |-> FALSE, repoUrl |-> Undefined, branch |-> Undefined, clonedPath |-> <<>>]
NullMetadata ==
  [present |-> FALSE, sessionId |-> -1, provider |-> Undefined, sessionName |-> "none",
   providerSessionId |-> "none", github |-> NoGithubInfo]

\* a volume without any session
\* completed: the sessions whose event log on the volume holds a completed
\* event
EmptyVolume ==
  [paths |-> {}, metadata |-> [s \in SessionIdSet |-> NullMetadata],
   head |-> [s \in SessionIdSet |-> Undefined], completed |-> {}]

\* path.join
PathJoin(base, rel) == base \o rel

\* targetPath.replace(workspacePath + '/', ''): the first occurrence of the
\* prefix, which path.join put at the start, is removed
ReplacePrefix(p, prefix) ==
  IF Len(p) > Len(prefix) /\ SubSeq(p, 1, Len(prefix)) = prefix
    THEN SubSeq(p, Len(prefix) + 1, Len(p))
    ELSE p

RECURSIVE LastSegment(_)
LastSegment(s) ==
  IF s = <<>> \/ s[Len(s)] = "/" THEN <<>>
  ELSE Append(LastSegment(SubSeq(s, 1, Len(s) - 1)), s[Len(s)])

\* GitHubClient.extractRepoName: the last segment of the URL without .git
extractRepoName(repoUrl) ==
  LET seg == LastSegment(repoUrl)
      n == Len(seg)
  IN IF n > 4 /\ SubSeq(seg, n - 3, n) = <<".", "g", "i", "t">>
       THEN SubSeq(seg, 1, n - 4) ELSE seg

\* SessionManager.getSessionWorkspace
getSessionWorkspace(sid) == <<"session", sid>>

\* a resume that looks for a clone directory whatever the metadata hold
getExecutionWorkspaceUnchecked(sid, md) ==
  PathJoin(getSessionWorkspace(sid), <<md.github.clonedPath>>)

\* a resume that always runs in the session root
getExecutionWorkspaceAlwaysRoot(sid, md) == getSessionWorkspace(sid)

\* SessionManager.getExecutionWorkspace given the loaded metadata
getExecutionWorkspace(sid, md) ==
  IF md.present /\ md.github.present /\ ~Falsy(md.github.clonedPath)
    THEN PathJoin(getSessionWorkspace(sid), <<md.github.clonedPath>>)
    ELSE getSessionWorkspace(sid)

(***************************************************************************)
(* State.                                                                  *)
(***************************************************************************)
VARIABLES
  env,               \* defaults from the process environment
  faults,            \* whether calls to the external collaborators may fail
  workerStatus,      \* "idle" or "busy"
  proc,              \* "up", "exiting" (exit timer armed) or "exited"
  exitCode,          \* code handed to process.exit, -1 while none is scheduled
  jobs,              \* process lifetimes started so far
  execCount,         \* calls of Orchestrator.execute in this process
  request,           \* the request handed to Orchestrator.execute
  sessionId,
  pc,                \* position of Orchestrator.execute
  err,               \* message of the error caught by execute's catch
  metadata,          \* execute's local variable metadata
  providerSessionId, \* execute's local variable providerSessionId
  workspacePath,     \* "root" (tmpDir/session-<id>) or "repo" (the clone inside it)
  provEvents,        \* payloads the capability has emitted in this run, in order
  calls,             \* external operations of this job, in order
  commitMessage,     \* the auto-commit block's local variable commitMessage
  stream,            \* events written to the live transport (res.write)
  ended,             \* res.end() has been called
  transport,         \* "open" or "closed" (client gone)
  chunkIndex,        \* execute's local variable chunkIndex
  dir,               \* the local session directory tmpDir/session-<id>
  logFails,          \* failed appends to an existing local log so far
  storage,           \* durable storage: session id -> stored session directory
  dbChunks,          \* chunkIndex of every appendChunk dispatched for DbSessionId
  dbStatus,          \* statuses written by updateSession, in order
  dbWrite,           \* appendChunk writes: "inFlight" while some dispatched write
                     \* has not settled, "rejected" once the latest to settle
                     \* was rejected, else "none"
  volume,            \* the persistent volume of the volume-based worker
  remote             \* the branches of the remote repository

serverVars == <<env, faults, workerStatus, proc, exitCode, jobs, execCount>>
jobVars ==
  <<request, commitMessage, sessionId, pc, err, metadata, providerSessionId, workspacePath,
    provEvents, calls>>
sinkVars ==
  <<stream, ended, transport, chunkIndex, dir, logFails, dbChunks, dbWrite>>
volumeVars == <<volume, remote>>
durableVars == <<storage, dbStatus, volumeVars>>
vars == <<serverVars, jobVars, sinkVars, durableVars>>

isResuming == request.resumeSessionId # NoResume

(***************************************************************************)
(* The process environment and the requests explored.                      *)
(***************************************************************************)
Envs ==
  {[provider |-> Undefined, authentication |-> AuthUndefined],
   [provider |-> ClaudeCode, authentication |-> AuthOauth]}

Github == [repoUrl |-> RepoUrl, present |-> TRUE]
Database == [sessionId |-> DbSessionId, accessToken |-> DbToken, present |-> TRUE]

\* requests that pass validateRequest
WellFormed ==
  {r \in [userRequest : {SomeText},
          codingAssistantProvider : {ClaudeCode},
          codingAssistantAuthentication : {AuthOauth, AuthOpaque},
          resumeSessionId : {NoResume} \cup ResumeIds,
          github : {NoGithub, Github},
          database : {NoDatabase, Database},
          autoCommit : {"unset", "false", "true"}] :
     /\ ~(r.github.present /\ r.resumeSessionId # NoResume)
     /\ (r.autoCommit = "false" => r.github.present)
     /\ (r.autoCommit = "true" => r.resumeSessionId # NoResume)}

Bases ==
  {r \in WellFormed :
     /\ r.codingAssistantAuthentication = AuthOauth
     /\ r.resumeSessionId = NoResume
     /\ ~r.github.present}

\* the well-formed request b with one field broken
Broken(b) ==
  {[b EXCEPT !.userRequest = v] : v \in {Undefined, Empty, Blank}}
  \cup {[b EXCEPT !.codingAssistantProvider = v] : v \in {Undefined, FromEnv, Blank, Gpt}}
  \cup {[b EXCEPT !.codingAssistantAuthentication = v] : v \in {AuthUndefined, AuthBlank}}
  \cup {[b EXCEPT !.github = Github, !.resumeSessionId = v] : v \in ResumeIds}
  \cup {[b EXCEPT !.github = [repoUrl |-> Blank, present |-> TRUE]]}
  \cup {[b EXCEPT !.database = [sessionId |-> Blank, accessToken |-> DbToken,
                                present |-> TRUE]]}

Malformed == UNION {Broken(b) : b \in Bases}

Requests == WellFormed \cup Malformed

\* the requests of the scenarios that span several process lifetimes: a
\* session is created, with or without a repository and a remote sink, and
\* a later job resumes session 1 or starts another session
SeqRequests ==
  {r \in WellFormed :
     /\ r.codingAssistantAuthentication = AuthOauth
     /\ r.autoCommit \in {"unset", "true"}
     /\ r.resumeSessionId \in {NoResume, 1}}

JobReset ==
  /\ request' = NoRequest
  /\ sessionId' = -1
  /\ pc' = "idle"
  /\ err' = NoError
  /\ metadata' = NoMetadata
  /\ providerSessionId' = "none"
  /\ workspacePath' = "root"
  /\ provEvents' = <<>>
  /\ calls' = <<>>
  /\ commitMessage' = "none"
  /\ stream' = <<>>
  /\ ended' = FALSE
  /\ transport' = "open"
  /\ chunkIndex' = 0
  /\ dir' = NoDir
  /\ dbWrite' = "none"

Init ==
  /\ env \in Envs
  /\ faults = TRUE
  /\ workerStatus = "idle"
  /\ proc = "up"
  /\ exitCode = -1
  /\ jobs = 1
  /\ execCount = 0
  /\ request = NoRequest
  /\ sessionId = -1
  /\ pc = "idle"
  /\ err = NoError
  /\ metadata = NoMetadata
  /\ providerSessionId = "none"
  /\ workspacePath = "root"
  /\ provEvents = <<>>
  /\ calls = <<>>
  /\ commitMessage = "none"
  /\ stream = <<>>
  /\ ended = FALSE
  /\ transport = "open"
  /\ chunkIndex = 0
  /\ dir = NoDir
  /\ logFails = 0
  /\ storage = [s \in SessionIdSet |-> NoDir]
  /\ dbChunks = <<>>
  /\ dbStatus = <<>>
  /\ dbWrite = "none"
  /\ volume = EmptyVolume
  /\ remote = {}

\* several process lifetimes in a row, without environment defaults, with
\* external collaborators that do not fail
InitSeq ==
  /\ env = [provider |-> Undefined, authentication |-> AuthUndefined]
  /\ faults = FALSE
  /\ workerStatus = "idle"
  /\ proc = "up"
  /\ exitCode = -1
  /\ jobs = 1
  /\ execCount = 0
  /\ request = NoRequest
  /\ sessionId = -1
  /\ pc = "idle"
  /\ err = NoError
  /\ metadata = NoMetadata
  /\ providerSessionId = "none"
  /\ workspacePath = "root"
  /\ provEvents = <<>>
  /\ calls = <<>>
  /\ commitMessage = "none"
  /\ stream = <<>>
  /\ ended = FALSE
  /\ transport = "open"
  /\ chunkIndex = 0
  /\ dir = NoDir
  /\ logFails = 0
  /\ storage = [s \in SessionIdSet |-> NoDir]
  /\ dbChunks = <<>>
  /\ dbStatus = <<>>
  /\ dbWrite = "none"
  /\ volume = EmptyVolume
  /\ remote = {}

\* the outcomes of a call to an external collaborator
Outcomes(normal, failing) == IF faults THEN normal \cup failing ELSE normal

(***************************************************************************)
(* sendEvent, the event sink of Orchestrator.execute.                      *)
(***************************************************************************)
\* SessionStorage.appendStreamEvent on directory d: the outcomes explored.
\* Appending into a directory that does not exist either creates it or fails.
LogOutcomes(d) ==
  Outcomes({"ok"}, IF ~d.exists \/ logFails < MaxLogFail THEN {"fail"} ELSE {})

appendStreamEvent(d, wp, ev) ==
  [exists |-> TRUE, meta |-> d.meta, log |-> [d.log EXCEPT ![wp] = @ + 1],
   commits |-> d.commits]

\* a write that throws once the client is gone
resWriteThrowsWhenClosed(tr) == tr = "closed"

\* res.write on a response whose connection is closed returns false; it does
\* not throw
resWriteThrows(tr) == FALSE

\* a sink without the try/catch around the log append
appendFailureEscapesAlways(logOutcome) == logOutcome = "fail"

\* the log append is inside try/catch: its failure is logged, never re-thrown
appendFailureEscapes(logOutcome) == FALSE

\* a counter that is never advanced
NextChunkIndexSame(ci) == ci

\* chunkIndex++ : the index sent is the old value
NextChunkIndex(ci) == ci + 1

\* execute's position after an exception thrown by sendEvent
AfterSinkThrow(inTry) == IF inTry THEN "catch" ELSE "threw"

\* sendEvent(ev) with the session directory being d and workspacePath wp;
\* execute continues at next.  inTry says whether the call is inside
\* execute's try block, whose catch handler is the position "catch".
SendEvent(ev, d, wp, next, inTry) ==
  IF resWriteThrows(transport)
    THEN /\ pc' = AfterSinkThrow(inTry)
         /\ err' = IF inTry THEN <<"write", "EPIPE">> ELSE err
         /\ dir' = d
         /\ UNCHANGED <<stream, ended, transport, chunkIndex, logFails, dbChunks,
                        dbWrite>>
    ELSE \E lo \in LogOutcomes(d) :
           LET threw == appendFailureEscapes(lo) IN
           /\ stream' = Append(stream, ev)
           /\ dir' = IF lo = "ok" THEN appendStreamEvent(d, wp, ev) ELSE d
           /\ logFails' = IF lo = "fail" /\ d.exists THEN logFails + 1 ELSE logFails
           /\ IF request.database.present /\ ~threw
                THEN /\ dbChunks' = Append(dbChunks, chunkIndex)
                     /\ chunkIndex' = NextChunkIndex(chunkIndex)
                     /\ dbWrite' = "inFlight"
                ELSE UNCHANGED <<dbChunks, chunkIndex, dbWrite>>
           /\ pc' = IF threw THEN AfterSinkThrow(inTry) ELSE next
           /\ err' = IF threw /\ inTry THEN <<"append", "ENOSPC">> ELSE err
           /\ UNCHANGED <<ended, transport>>

\* a step of execute that sends no event
NoEvent ==
  UNCHANGED <<stream, ended, transport, chunkIndex, logFails, dbChunks,
              dbWrite>>

Call(op) == calls' = Append(calls, op)

\* an awaited call rejected with message m inside the try block
Throw(m) == pc' = "catch" /\ err' = m

(***************************************************************************)
(* POST /execute (src/src/server.ts).  The handler runs without            *)
(* suspension from the busy check to the call of orchestrator.execute.     *)
(***************************************************************************)
\* the request after the environment fallbacks
WithEnvDefaults(r) ==
  [r EXCEPT
     !.codingAssistantProvider =
        IF (Falsy(@) \/ @ = FromEnv) /\ ~Falsy(env.provider) THEN env.provider ELSE @,
     !.codingAssistantAuthentication =
        IF (Falsy(@.text) \/ @.text = FromEnv) /\ ~Falsy(env.authentication.text)
          THEN env.authentication ELSE @]

\* the field the front door finds missing, or "none"
MissingField(r) ==
  IF Falsy(r.userRequest) THEN "userRequest"
  ELSE IF (Falsy(r.codingAssistantProvider) \/ r.codingAssistantProvider = FromEnv)
          /\ Falsy(env.provider)
    THEN "codingAssistantProvider"
  ELSE IF (Falsy(r.codingAssistantAuthentication.text)
           \/ r.codingAssistantAuthentication.text = FromEnv)
          /\ Falsy(env.authentication.text)
    THEN "codingAssistantAuthentication"
  ELSE "none"

\* a handler that forgets to mark the worker busy
StatusAfterAcceptIdle == "idle"

\* the worker status after a request was accepted
StatusAfterAccept == "busy"

\* the process runs and has not scheduled its exit: app.listen is called at
\* module load, whether or not orchestrator.initialize() has settled
Serving == proc \in {"starting", "up"}

\* a handler that validates the request without looking at the worker status
ReplyIgnoringBusy(r) == IF MissingField(r) # "none" THEN 400 ELSE 200

\* the HTTP status the handler answers request r with in the current state:
\* 429 busy, 400 invalid_request, 200 the event stream
Reply(r) ==
  IF workerStatus = "busy" THEN 429
  ELSE IF MissingField(r) # "none" THEN 400
  ELSE 200

\* a rejected request changes nothing; an accepted one is handed to
\* orchestrator.execute, which runs up to its first suspension point
HandleExecute(reqs) ==
  /\ proc \in {"starting", "up", "exiting"}
  /\ IF workerStatus = "busy"
       THEN UNCHANGED vars
       ELSE \E r \in reqs :
              IF Reply(r) # 200
                THEN UNCHANGED vars
                ELSE /\ workerStatus' = StatusAfterAccept
                     /\ execCount' = execCount + 1
                     /\ request' = WithEnvDefaults(r)
                     /\ sessionId' = IF r.resumeSessionId # NoResume
                                       THEN r.resumeSessionId ELSE jobs
                     /\ pc' = "validate"
                     /\ UNCHANGED <<env, faults, proc, exitCode, jobs>>
                     /\ UNCHANGED <<err, metadata, providerSessionId, workspacePath,
                                    provEvents, calls, commitMessage>>
                     /\ UNCHANGED <<sinkVars, durableVars>>

\* POST /execute with any of the requests explored
PostExecute == HandleExecute(Requests)

\* POST /execute with a request of the session-continuity scenarios
PostExecuteSeq == HandleExecute(SeqRequests)

(***************************************************************************)
(* Orchestrator.execute (src/unnamed/part_000), one action per statement   *)
(* group between two suspension points or event sends.                     *)
(***************************************************************************)
Running(label) == Serving /\ pc = label

\* Step 1: validateRequest
Validate ==
  /\ Running("validate")
  /\ LET m == validateRequest(request) IN
       IF m = NoError
         THEN pc' = "download" /\ err' = err
         ELSE Throw(m)
  /\ UNCHANGED <<request, commitMessage, sessionId, metadata, providerSessionId, workspacePath,
                 provEvents, calls>>
  /\ UNCHANGED <<serverVars, sinkVars, durableVars>>

\* the metadata record of a new session
NewMetadata ==
  [sessionId |-> sessionId, provider |-> request.codingAssistantProvider,
   sessionName |-> "none", providerSessionId |-> "none", github |-> NoRepoInfo]

\* SessionStorage.saveMetadata: a whole-record overwrite in directory d
saveMetadata(d, m) == [d EXCEPT !.exists = TRUE, !.meta = m]

\* SessionStorage.downloadSession: the local directory after a download
\* that returned: a copy of the stored session, or a new empty directory
downloadSession(sid) == IF storage[sid].exists THEN storage[sid] ELSE EmptyDir

\* Step 2: downloadSession, getMetadata, create metadata if there is none
\* a job that does not take the provider's session id from the metadata
loadedProviderSessionIdIgnored(loaded, current) == current

\* if (metadata) providerSessionId = metadata.providerSessionId
loadedProviderSessionId(loaded, current) ==
  IF loaded # NoMetadata THEN loaded.providerSessionId ELSE current

Download ==
  /\ Running("download")
  /\ \E outcome \in Outcomes({"returns"}, {"throws", "throwsPartial"}) :
       IF outcome = "returns"
         THEN LET sessionExisted == storage[sessionId].exists
                  d == downloadSession(sessionId)
                  loaded == IF sessionExisted THEN d.meta ELSE NoMetadata
                  m == IF loaded # NoMetadata THEN loaded ELSE NewMetadata
              IN /\ metadata' = m
                 /\ providerSessionId' = loadedProviderSessionId(loaded, providerSessionId)
                 /\ dir' = IF loaded # NoMetadata THEN d ELSE saveMetadata(d, m)
                 /\ pc' = "connected"
                 /\ err' = err
         ELSE /\ Throw(MsgStorageDown)
              /\ dir' = IF outcome = "throwsPartial" THEN EmptyDir ELSE dir
              /\ UNCHANGED <<metadata, providerSessionId>>
  /\ Call("downloadSession")
  /\ UNCHANGED <<request, commitMessage, sessionId, workspacePath, provEvents>>
  /\ UNCHANGED <<stream, ended, transport, chunkIndex, logFails, dbChunks,
                 dbWrite>>
  /\ UNCHANGED <<serverVars, durableVars>>

\* Step 3: the connected event
Connected ==
  /\ Running("connected")
  /\ SendEvent(Event("connected", "none"), dir, workspacePath, "sessionName", TRUE)
  /\ UNCHANGED <<request, commitMessage, sessionId, metadata, providerSessionId, workspacePath,
                 provEvents, calls>>
  /\ UNCHANGED <<serverVars, durableVars>>

\* generateBranchName is called only for a request with a repository
BranchNameFor(r) == IF r.github.present THEN "webedt/name" ELSE "none"

\* Step 3.5: session name, for a new session whose credential yields an API key.
\* LLMHelper.generateSessionName catches its own failures and falls back
\* to the truncated user request.
SessionName ==
  /\ Running("sessionName")
  /\ IF ~isResuming /\ extractApiKey(request.codingAssistantAuthentication)
       THEN /\ metadata' = [metadata EXCEPT !.sessionName = "name"]
            /\ Call("generateSessionName")
            /\ SendEvent(Event("session_name", BranchNameFor(request)), dir,
                         workspacePath, "pullStart", TRUE)
       ELSE /\ pc' = "pullStart"
            /\ UNCHANGED <<metadata, calls, err, dir>>
            /\ NoEvent
  /\ UNCHANGED <<request, commitMessage, sessionId, providerSessionId, workspacePath, provEvents>>
  /\ UNCHANGED <<serverVars, durableVars>>

\* Step 4: announce the pull, or switch a resumed session to its repository
PullStart ==
  /\ Running("pullStart")
  /\ IF request.github.present /\ ~isResuming
       THEN /\ SendEvent(Event("message", "pulling"), dir, workspacePath, "pull", TRUE)
            /\ UNCHANGED workspacePath
       ELSE /\ workspacePath' =
                 IF metadata.github.present /\ isResuming THEN "repo" ELSE workspacePath
            /\ pc' = "statusActive"
            /\ UNCHANGED <<err, dir>>
            /\ NoEvent
  /\ UNCHANGED <<request, commitMessage, sessionId, metadata, providerSessionId, provEvents, calls>>
  /\ UNCHANGED <<serverVars, durableVars>>

\* the branch name generated together with the session name, if any
branchNameOf(m, r) ==
  IF m.sessionName # "none" THEN BranchNameFor(r) ELSE "none"

\* Step 4: pullRepository, metadata.github, saveMetadata, github_pull_progress
Pull ==
  /\ Running("pull")
  /\ Call("pullRepository")
  /\ \E outcome \in Outcomes({"returns"}, {"throws"}) :
       IF outcome = "returns"
         THEN LET m == [metadata EXCEPT !.github =
                          [present |-> TRUE, branch |-> "main",
                           branchName |-> branchNameOf(metadata, request),
                           clonedPath |-> "r"]]
              IN /\ metadata' = m
                 /\ workspacePath' = "repo"
                 /\ SendEvent(Event("github_pull_progress", "completed"),
                              saveMetadata(dir, m), "repo",
                              IF branchNameOf(metadata, request) # "none"
                                THEN "branch" ELSE "statusActive", TRUE)
         ELSE /\ Throw(MsgCloneFailed)
              /\ UNCHANGED <<metadata, workspacePath, dir>>
              /\ NoEvent
  /\ UNCHANGED <<request, commitMessage, sessionId, providerSessionId, provEvents>>
  /\ UNCHANGED <<serverVars, durableVars>>

\* a job that creates the branch whatever branchExists answered
shouldCreateBranchAlways(branchExists) == TRUE

\* if (!branchExists) createBranch
shouldCreateBranch(branchExists) == ~branchExists

\* Step 4: branch creation; every failure is caught and logged.  The calls
\* are recorded with their results.
Branch ==
  /\ Running("branch")
  /\ \E be \in Outcomes({"branchExists:true", "branchExists:false"},
                        {"branchExists:throws"}),
        cb \in Outcomes({"createBranch:ok"}, {"createBranch:throws"}) :
       LET create == be # "branchExists:throws"
                     /\ shouldCreateBranch(be = "branchExists:true")
       IN
       /\ calls' = IF create THEN calls \o <<be, cb>> ELSE Append(calls, be)
       /\ IF create /\ cb = "createBranch:ok"
            THEN SendEvent(Event("branch_created", metadata.github.branchName), dir,
                           workspacePath, "statusActive", TRUE)
            ELSE /\ pc' = "statusActive"
                 /\ UNCHANGED <<err, dir>>
                 /\ NoEvent
  /\ UNCHANGED <<request, commitMessage, sessionId, metadata, providerSessionId, workspacePath,
                 provEvents>>
  /\ UNCHANGED <<serverVars, durableVars>>

\* dbClient.updateSession(status) awaited inside the try block
UpdateSessionInTry(status, next) ==
  IF request.database.present
    THEN /\ Call("updateSession")
         /\ \E outcome \in Outcomes({"resolves"}, {"rejects"}) :
              IF outcome = "resolves"
                THEN /\ dbStatus' = Append(dbStatus, status)
                     /\ pc' = next
                     /\ err' = err
                ELSE /\ Throw(MsgStatusUpdateFailed)
                     /\ UNCHANGED dbStatus
    ELSE /\ pc' = next
         /\ UNCHANGED <<err, calls, dbStatus>>

\* Update DB with session metadata (status active)
StatusActive ==
  /\ Running("statusActive")
  /\ UpdateSessionInTry("active", "executing")
  /\ UNCHANGED <<request, commitMessage, sessionId, metadata, providerSessionId, workspacePath,
                 provEvents>>
  /\ UNCHANGED <<serverVars, sinkVars, storage, volumeVars>>

\* Step 5: the "Executing with" message and the provider instance
Executing ==
  /\ Running("executing")
  /\ SendEvent(Event("message", "executing"), dir, workspacePath, "execute", TRUE)
  /\ Call("provider.execute")
  /\ UNCHANGED <<request, commitMessage, sessionId, metadata, providerSessionId, workspacePath,
                 provEvents>>
  /\ UNCHANGED <<serverVars, durableVars>>

\* the correlation id the capability announces in the process of job j
CorrelationId(j) == IF j % 2 = 1 THEN "c1" ELSE "c2"

\* what the capability may emit after n events: the init payload is the first
\* message of a run, if it comes at all
ProviderEventKinds(n) == IF n = 0 THEN {"init", "text"} ELSE {"text"}

\* a callback that forwards every payload as an ordinary message
forwardedAsText(payload) == "text"

\* sendEvent({...event, timestamp}): the payload is forwarded as it is
forwarded(payload) == payload

\* Step 6: the onEvent callback, once per event of the capability.  An init
\* payload carries the capability's session id, which is saved to metadata.
ProviderEvent ==
  /\ Running("execute")
  /\ Len(provEvents) < MaxProviderEvents
  /\ \E kind \in ProviderEventKinds(Len(provEvents)) :
       /\ provEvents' = Append(provEvents, kind)
       /\ IF kind = "init"
            THEN LET m == [metadata EXCEPT !.providerSessionId = CorrelationId(jobs)]
                 IN /\ metadata' = m
                    /\ SendEvent(Event("assistant_message", forwarded(kind)),
                                 saveMetadata(dir, m), workspacePath, "execute", TRUE)
            ELSE /\ metadata' = metadata
                 /\ SendEvent(Event("assistant_message", forwarded(kind)), dir,
                              workspacePath, "execute", TRUE)
  /\ UNCHANGED <<request, commitMessage, sessionId, providerSessionId, workspacePath, calls>>
  /\ UNCHANGED <<serverVars, durableVars>>

\* an auto-commit decided by the repository info of the metadata alone
shouldAutoCommitFromMetadata ==
  request.autoCommit # "false" /\ metadata.github.present

\* request.github && (request.autoCommit !== false), and metadata.github
shouldAutoCommit ==
  request.github.present /\ request.autoCommit # "false" /\ metadata.github.present

\* Step 6: provider.execute settles
ProviderSettles ==
  /\ Running("execute")
  /\ \E outcome \in Outcomes({"returns"}, {"throws"}) :
       IF outcome = "returns"
         THEN /\ pc' = IF shouldAutoCommit THEN "hasChanges" ELSE "upload"
              /\ err' = err
         ELSE Throw(MsgCapabilityFailed)
  /\ UNCHANGED <<request, commitMessage, sessionId, metadata, providerSessionId, workspacePath,
                 provEvents, calls>>
  /\ UNCHANGED <<serverVars, sinkVars, durableVars>>

\* an auto-commit block without its own try/catch
AfterAutoCommitFailureEscalates == "catch"

\* execute's position after a failure inside the auto-commit block: the
\* block's own catch handler
AfterAutoCommitFailure == "commitFailed"

\* Step 6.5: gitHelper.hasChanges
HasChanges ==
  /\ Running("hasChanges")
  /\ Call("hasChanges")
  /\ \E outcome \in Outcomes({"changes", "clean"}, {"throws"}) :
       IF outcome = "changes"
         THEN SendEvent(Event("commit_progress", "analyzing"), dir, workspacePath,
                        "statusDiff", TRUE)
         ELSE /\ pc' = IF outcome = "clean" THEN "upload" ELSE AfterAutoCommitFailure
              /\ UNCHANGED <<err, dir>>
              /\ NoEvent
  /\ UNCHANGED <<request, commitMessage, sessionId, metadata, providerSessionId, workspacePath,
                 provEvents>>
  /\ UNCHANGED <<serverVars, durableVars>>

\* Step 6.5: getStatus and getDiff
StatusDiff ==
  /\ Running("statusDiff")
  /\ Call("getStatus")
  /\ \E outcome \in Outcomes({"returns"}, {"throws"}) :
       IF outcome = "returns"
         THEN SendEvent(Event("commit_progress", "generating_message"), dir,
                        workspacePath, "commitMessage", TRUE)
         ELSE /\ pc' = AfterAutoCommitFailure
              /\ UNCHANGED <<err, dir>>
              /\ NoEvent
  /\ UNCHANGED <<request, commitMessage, sessionId, metadata, providerSessionId, workspacePath,
                 provEvents>>
  /\ UNCHANGED <<serverVars, durableVars>>

\* LLMHelper.generateCommitMessage: the model's answer, or the fixed fallback
\* message when the call to the model fails
generateCommitMessage(outcome) ==
  IF outcome = "fails" THEN "chore: auto-commit changes" ELSE "generated"

\* Step 6.5: the commit message, when an API key can be extracted
CommitMessage ==
  /\ Running("commitMessage")
  /\ IF extractApiKey(request.codingAssistantAuthentication)
       THEN /\ Call("generateCommitMessage")
            /\ \E outcome \in Outcomes({"answers"}, {"fails"}) :
                 commitMessage' = generateCommitMessage(outcome)
            /\ SendEvent(Event("commit_progress", "committing"), dir, workspacePath,
                         "commit", TRUE)
       ELSE /\ pc' = "upload"
            /\ UNCHANGED <<err, dir, calls, commitMessage>>
            /\ NoEvent
  /\ UNCHANGED <<request, sessionId, metadata, providerSessionId, workspacePath,
                 provEvents>>
  /\ UNCHANGED <<serverVars, durableVars>>

\* a commit made outside the session directory
commitAllElsewhere(d) == d

\* gitHelper.commitAll in the clone, which lies in the session directory:
\* the commits made by jobs are counted
commitAll(d) == [d EXCEPT !.commits = @ + 1]

\* Step 6.5: gitHelper.commitAll
Commit ==
  /\ Running("commit")
  /\ Call("commitAll")
  /\ \E outcome \in Outcomes({"returns"}, {"throws"}) :
       IF outcome = "returns"
         THEN SendEvent(Event("commit_progress", "completed:hash"), commitAll(dir),
                        workspacePath, "upload", TRUE)
         ELSE /\ pc' = AfterAutoCommitFailure
              /\ UNCHANGED <<err, dir>>
              /\ NoEvent
  /\ UNCHANGED <<request, commitMessage, sessionId, metadata, providerSessionId, workspacePath,
                 provEvents>>
  /\ UNCHANGED <<serverVars, durableVars>>

\* Step 6.5: the catch of the auto-commit block
CommitFailed ==
  /\ Running("commitFailed")
  /\ SendEvent(Event("commit_progress", "completed:failed"), dir, workspacePath,
               "upload", TRUE)
  /\ UNCHANGED <<request, commitMessage, sessionId, metadata, providerSessionId, workspacePath,
                 provEvents, calls>>
  /\ UNCHANGED <<serverVars, durableVars>>

\* SessionStorage.uploadSession: the stored session becomes a copy of d
uploadSession(sid, d) == [storage EXCEPT ![sid] = d]

\* Step 7: upload the session directory
Upload ==
  /\ Running("upload")
  /\ \E outcome \in Outcomes({"resolves"}, {"rejects"}) :
       IF outcome = "resolves"
         THEN /\ storage' = uploadSession(sessionId, dir)
              /\ Call("uploadSession:ok")
              /\ pc' = "completed"
              /\ err' = err
         ELSE /\ Throw(MsgStorageDown)
              /\ Call("uploadSession:failed")
              /\ UNCHANGED storage
  /\ UNCHANGED <<request, commitMessage, sessionId, metadata, providerSessionId, workspacePath,
                 provEvents>>
  /\ UNCHANGED <<serverVars, sinkVars, dbStatus, volumeVars>>

\* Step 8: the completed event
Completed ==
  /\ Running("completed")
  /\ SendEvent(Event("completed", "none"), dir, workspacePath, "statusCompleted", TRUE)
  /\ UNCHANGED <<request, commitMessage, sessionId, metadata, providerSessionId, workspacePath,
                 provEvents, calls>>
  /\ UNCHANGED <<serverVars, durableVars>>

\* Update DB with completion
StatusCompleted ==
  /\ Running("statusCompleted")
  /\ UpdateSessionInTry("completed", "cleanup")
  /\ UNCHANGED <<request, commitMessage, sessionId, metadata, providerSessionId, workspacePath,
                 provEvents>>
  /\ UNCHANGED <<serverVars, sinkVars, storage, volumeVars>>

\* a removal that leaves the directory in place
rmSyncLeavesDirectory(d) == d

\* fs.rmSync(dir, {recursive, force})
rmSync(d) == NoDir

\* Step 9: remove the local session directory, then res.end()
Cleanup ==
  /\ Running("cleanup")
  /\ dir' = rmSync(dir)
  /\ calls' = calls \o <<"rmSync", "res.end">>
  /\ ended' = TRUE
  /\ pc' = "returned"
  /\ UNCHANGED <<request, commitMessage, sessionId, err, metadata, providerSessionId, workspacePath,
                 provEvents>>
  /\ UNCHANGED <<stream, transport, chunkIndex, logFails, dbChunks,
                 dbWrite>>
  /\ UNCHANGED <<serverVars, durableVars>>

(***************************************************************************)
(* The catch block of Orchestrator.execute.                                *)
(***************************************************************************)
\* Send error event
Catch ==
  /\ Running("catch")
  /\ SendEvent(ErrorEvent(err), dir, workspacePath, "catchUpload",
               FALSE)
  /\ UNCHANGED <<request, commitMessage, sessionId, metadata, providerSessionId, workspacePath,
                 provEvents, calls>>
  /\ UNCHANGED <<serverVars, durableVars>>

\* a catch block that gives up the partial progress
shouldUploadOnErrorNever(d) == FALSE

\* workspacePath && fs.existsSync(tmpDir/session-<id>)
shouldUploadOnError(d) == d.exists

\* Try to upload session even on error, if the directory exists
CatchUpload ==
  /\ Running("catchUpload")
  /\ IF shouldUploadOnError(dir)
       THEN \E outcome \in Outcomes({"resolves"}, {"rejects"}) :
              IF outcome = "resolves"
                THEN storage' = uploadSession(sessionId, dir) /\ Call("uploadSession:ok")
                ELSE UNCHANGED storage /\ Call("uploadSession:failed")
       ELSE UNCHANGED <<storage, calls>>
  /\ pc' = "catchCleanup"
  /\ UNCHANGED <<request, commitMessage, sessionId, err, metadata, providerSessionId, workspacePath,
                 provEvents>>
  /\ UNCHANGED <<serverVars, sinkVars, dbStatus, volumeVars>>

\* Cleanup local workspace, then update DB with error (failures logged)
CatchCleanup ==
  /\ Running("catchCleanup")
  /\ IF dir.exists
       THEN dir' = rmSync(dir) /\ Call("rmSync")
       ELSE UNCHANGED <<dir, calls>>
  /\ pc' = "catchStatus"
  /\ UNCHANGED <<request, commitMessage, sessionId, err, metadata, providerSessionId, workspacePath,
                 provEvents>>
  /\ UNCHANGED <<stream, ended, transport, chunkIndex, logFails, dbChunks,
                 dbWrite>>
  /\ UNCHANGED <<serverVars, durableVars>>

\* Update DB with error; a rejection is logged.  Then res.end() and re-throw.
CatchStatus ==
  /\ Running("catchStatus")
  /\ IF request.database.present
       THEN \E outcome \in Outcomes({"resolves"}, {"rejects"}) :
              /\ dbStatus' = IF outcome = "resolves" THEN Append(dbStatus, "error")
                             ELSE dbStatus
              /\ calls' = calls \o <<"updateSession", "res.end">>
       ELSE UNCHANGED dbStatus /\ Call("res.end")
  /\ ended' = TRUE
  /\ pc' = "threw"
  /\ UNCHANGED <<request, commitMessage, sessionId, err, metadata, providerSessionId, workspacePath,
                 provEvents>>
  /\ UNCHANGED <<stream, transport, chunkIndex, dir, logFails, dbChunks,
                 dbWrite>>
  /\ UNCHANGED <<serverVars, storage, volumeVars>>

(***************************************************************************)
(* The server after execute settled, the process and its environment.      *)
(***************************************************************************)
\* setTimeout(() => process.exit(code), 1000) after execute returned or threw
\* a handler that always reports success
exitCodeAlwaysZero(settled) == 0

\* process.exit(0) after execute returned, process.exit(1) in the catch block
exitCodeFor(settled) == IF settled = "returned" THEN 0 ELSE 1

ScheduleExit ==
  /\ Serving
  /\ pc \in {"returned", "threw"}
  /\ exitCode' = exitCodeFor(pc)
  /\ proc' = "exiting"
  /\ pc' = "done"
  /\ UNCHANGED <<env, faults, workerStatus, jobs, execCount>>
  /\ UNCHANGED <<request, commitMessage, sessionId, err, metadata, providerSessionId, workspacePath,
                 provEvents, calls>>
  /\ UNCHANGED <<sinkVars, durableVars>>

\* the exit timer fires
ProcessExit ==
  /\ proc = "exiting"
  /\ proc' = "exited"
  /\ UNCHANGED <<env, faults, workerStatus, exitCode, jobs, execCount>>
  /\ UNCHANGED <<jobVars, sinkVars, durableVars>>

\* the supervisor starts the next worker process
Restart ==
  /\ proc = "exited"
  /\ jobs < MaxJobs
  /\ jobs' = jobs + 1
  /\ proc' = "up"
  /\ workerStatus' = "idle"
  /\ exitCode' = -1
  /\ execCount' = 0
  /\ JobReset
  /\ UNCHANGED <<env, faults, logFails, dbChunks, durableVars>>

\* the client closes the connection of the event stream
ClientDisconnect ==
  /\ Serving
  /\ pc \notin {"idle", "returned", "threw", "done"}
  /\ transport = "open"
  /\ transport' = "closed"
  /\ UNCHANGED <<stream, ended, chunkIndex, dir, logFails, dbChunks,
                 dbWrite>>
  /\ UNCHANGED <<serverVars, jobVars, durableVars>>

\* the appendChunk writes in flight settle; a rejection is logged
ChunksSettle ==
  /\ proc \in {"starting", "up", "exiting"}
  /\ dbWrite = "inFlight"
  /\ \E outcome \in {"none", "rejected"} : dbWrite' = outcome
  /\ UNCHANGED <<stream, ended, transport, chunkIndex, dir, logFails,
                 dbChunks>>
  /\ UNCHANGED <<serverVars, jobVars, durableVars>>

Next ==
  \/ PostExecute
  \/ Validate
  \/ Download
  \/ Connected
  \/ SessionName
  \/ PullStart
  \/ Pull
  \/ Branch
  \/ StatusActive
  \/ Executing
  \/ ProviderEvent
  \/ ProviderSettles
  \/ HasChanges
  \/ StatusDiff
  \/ CommitMessage
  \/ Commit
  \/ CommitFailed
  \/ Upload
  \/ Completed
  \/ StatusCompleted
  \/ Cleanup
  \/ Catch
  \/ CatchUpload
  \/ CatchCleanup
  \/ CatchStatus
  \/ ScheduleExit
  \/ ProcessExit
  \/ ClientDisconnect
  \/ ChunksSettle

Spec == Init /\ [][Next]_vars

\* a step of Orchestrator.execute or of the handler's continuation after it
ExecuteStep ==
  \/ Validate \/ Download \/ Connected \/ SessionName \/ PullStart \/ Pull \/ Branch
  \/ StatusActive \/ Executing \/ ProviderEvent \/ ProviderSettles \/ HasChanges
  \/ StatusDiff \/ CommitMessage \/ Commit \/ CommitFailed \/ Upload \/ Completed
  \/ StatusCompleted \/ Cleanup \/ Catch \/ CatchUpload \/ CatchCleanup \/ CatchStatus
  \/ ScheduleExit

\* one process lifetime, started without defaults in the environment, in
\* which every awaited call eventually settles, the event loop runs the
\* continuations and the exit timer fires
InitLive == Init /\ env.provider = Undefined

SpecLive == InitLive /\ [][Next]_vars /\ WF_vars(ExecuteStep) /\ WF_vars(ProcessExit)

\* with collaborators that do not fail and well-formed requests, execute
\* never enters its catch block and the auto-commit block never fails
NextSeq ==
  \/ PostExecuteSeq
  \/ Validate
  \/ Download
  \/ Connected
  \/ SessionName
  \/ PullStart
  \/ Pull
  \/ Branch
  \/ StatusActive
  \/ Executing
  \/ ProviderEvent
  \/ ProviderSettles
  \/ HasChanges
  \/ StatusDiff
  \/ CommitMessage
  \/ Commit
  \/ Upload
  \/ Completed
  \/ StatusCompleted
  \/ Cleanup
  \/ ScheduleExit
  \/ ProcessExit
  \/ ChunksSettle
  \/ Restart

SpecSeq == InitSeq /\ [][NextSeq]_vars

(***************************************************************************)
(* The volume-based worker: POST /execute (src/unified-worker/src/         *)
(* server.ts) and Orchestrator.execute (src/unified-worker/src/            *)
(* orchestrator.ts) with SessionManager and GitHubClient.  Its process     *)
(* exits after every job like the storage-backed worker's, so ScheduleExit,*)
(* ProcessExit and Restart are shared.                                     *)
(***************************************************************************)
MsgSessionNotFound == <<"Session", "not", "found", ":", "<id>">>
MsgSessionMetadataNotFound == <<"Session", "metadata", "not", "found", ":", "<id>">>
MsgRemoteBranchNotFound ==
  <<"Remote", "branch", "<branch>", "not", "found", "in", "upstream", "origin">>
MsgRecoveryFailed ==
  <<"Cannot", "resume", "session", ":", "workspace", "missing", "and", "recovery",
    "failed", ".", "Original", "error", ":">>
MsgNoGithubMetadata ==
  <<"Cannot", "resume", "session", ":", "workspace", "missing", "and", "no", "GitHub",
    "metadata", "available", "for", "recovery", ".", "The", "session", "workspace",
    "may", "have", "been", "pruned", ".">>

VolumeGithub ==
  {[present |-> TRUE, repoUrl |-> RepoUrl, branch |-> b, directory |-> d] :
     b \in {Undefined, BranchFeature}, d \in {Undefined, Directory}}
NoVolumeGithub ==
  [present |-> FALSE, repoUrl |-> Undefined, branch |-> Undefined,
   directory |-> Undefined]

\* new sessions with and without a repository, resumed sessions, and a
\* request that names both a repository and a session
VolumeRequests ==
  {[userRequest |-> SomeText, codingAssistantProvider |-> ClaudeCode,
    codingAssistantAuthentication |-> AuthOauth, resumeSessionId |-> rs,
    github |-> g, database |-> db, autoCommit |-> "unset"] :
     rs \in {NoResume} \cup ResumeIds, g \in VolumeGithub \cup {NoVolumeGithub},
     db \in {NoDatabase, Database}}

\* fs.existsSync
existsSync(p) == p \in volume.paths

\* SessionManager.sessionExists
sessionExists(sid) == existsSync(getSessionWorkspace(sid))

\* SessionManager.loadMetadata: null when the file is absent
loadMetadata(sid) ==
  IF sessionExists(sid) THEN volume.metadata[sid] ELSE NullMetadata

\* the members of a JSON object, a sequence of <<key, value>>
HasMember(text, key) == \E i \in 1..Len(text) : text[i][1] = key
Member(text, key, absent) ==
  IF HasMember(text, key)
    THEN text[CHOOSE i \in 1..Len(text) : text[i][1] = key][2]
    ELSE absent
OptionalMember(key, value, absent) ==
  IF value = absent THEN <<>> ELSE <<<<key, value>>>>

\* a serialisation that loses the session name
JSONStringifyWithoutName(md) ==
  <<<<"sessionId", md.sessionId>>, <<"provider", md.provider>>>>

\* JSON.stringify(metadata): a member whose value is undefined is left out
JSONStringify(md) ==
  <<<<"sessionId", md.sessionId>>>>
  \o OptionalMember("sessionName", md.sessionName, "none")
  \o OptionalMember("providerSessionId", md.providerSessionId, "none")
  \o OptionalMember("provider", md.provider, Undefined)
  \o (IF md.github.present
        THEN <<<<"github", <<<<"repoUrl", md.github.repoUrl>>>>
                           \o OptionalMember("branch", md.github.branch, Undefined)
                           \o <<<<"clonedPath", md.github.clonedPath>>>>>>>>
        ELSE <<>>)

\* JSON.parse(content) as SessionMetadata: a member left out reads undefined
JSONParse(text) ==
  [present |-> TRUE,
   sessionId |-> Member(text, "sessionId", -1),
   provider |-> Member(text, "provider", Undefined),
   sessionName |-> Member(text, "sessionName", "none"),
   providerSessionId |-> Member(text, "providerSessionId", "none"),
   github |-> IF HasMember(text, "github")
                THEN LET g == Member(text, "github", <<>>) IN
                     [present |-> TRUE,
                      repoUrl |-> Member(g, "repoUrl", Undefined),
                      branch |-> Member(g, "branch", Undefined),
                      clonedPath |-> Member(g, "clonedPath", <<>>)]
                ELSE NoGithubInfo]

\* SessionManager.saveMetadata: the volume after writing the metadata file;
\* the volume holds the file as loadMetadata would read it back
writeMetadata(vol, sid, md) ==
  [vol EXCEPT !.metadata[sid] = JSONParse(JSONStringify(md))]

\* SessionManager.createMetadata(sessionId, provider)
createMetadata(sid, provider) ==
  [present |-> TRUE, sessionId |-> sid, provider |-> provider, sessionName |-> "none",
   providerSessionId |-> "none", github |-> NoGithubInfo]

\* SessionManager.createSessionWorkspace: mkdir unless the directory exists
createSessionWorkspace(vol, sid) ==
  [vol EXCEPT !.paths = @ \cup {getSessionWorkspace(sid)}]

\* GitHubClient.pullRepository: directory || extractRepoName(repoUrl), joined
\* to the workspace root
pullTarget(options) ==
  PathJoin(options.workspaceRoot,
           <<IF Falsy(options.directory) THEN extractRepoName(options.repoUrl)
             ELSE options.directory>>)

\* a client that never looks for an existing clone
repoExistsNever(options) == FALSE

\* const repoExists = fs.existsSync(targetPath)
repoExists(options) == existsSync(pullTarget(options))

\* the git commands pullRepository runs when none of them fails:
\* pullExisting (status, checkout if the branch differs, pull) or
\* cloneRepository
GitCommands(options) ==
  IF repoExists(options)
    THEN <<"status">>
         \o (IF ~Falsy(options.branch)
                 /\ options.branch # volume.head[options.workspaceRoot[2]]
               THEN <<"checkout">> ELSE <<>>)
         \o <<"pull">>
    ELSE <<"clone">>

\* the outcomes of git for pullRepository: git clone --branch b fails when the
\* remote has no branch b; any git command may fail for other reasons
PullOutcomes(options) ==
  IF repoExists(options)
    THEN Outcomes({"pulled"}, {"fails"})
    ELSE IF ~Falsy(options.branch) /\ options.branch \notin remote
      THEN {"branchNotFound"}
      ELSE Outcomes({"cloned"}, {"fails"})

\* GitHubClient.cloneRepository / pullExisting: the result they return
\* (actualBranch = branch || 'main', resp. branch || status.current || 'main')
pullRepository(options, outcome) ==
  [targetPath |-> pullTarget(options),
   wasCloned |-> outcome = "cloned",
   branch |-> IF ~Falsy(options.branch) THEN options.branch
              ELSE IF outcome = "pulled" /\ ~Falsy(volume.head[options.workspaceRoot[2]])
                THEN volume.head[options.workspaceRoot[2]]
              ELSE BranchMain]

\* the volume after git clone or git pull: the clone exists at the target
\* path with the requested branch (or the remote's default) checked out
afterGit(vol, options) ==
  [vol EXCEPT !.paths = @ \cup {pullTarget(options)},
              !.head[options.workspaceRoot[2]] =
                 IF ~Falsy(options.branch) THEN options.branch
                 ELSE IF pullTarget(options) \in vol.paths /\ ~Falsy(@) THEN @
                 ELSE BranchMain]

PullFailure(outcome) ==
  IF outcome = "branchNotFound" THEN MsgRemoteBranchNotFound ELSE MsgCloneFailed

\* sendEvent of the volume-based Orchestrator.execute, for the events sent
\* without suspension in between: res.write, then appendChunk dispatched
\* with chunkIndex++ when a database is configured.  The append to the
\* local log is inside try/catch and leaves no trace in this model.
VolumeSendEvents(evs) ==
  /\ stream' = stream \o evs
  /\ IF request.database.present /\ evs # <<>>
       THEN /\ dbChunks' = dbChunks \o [i \in 1..Len(evs) |-> chunkIndex + i - 1]
            /\ chunkIndex' = chunkIndex + Len(evs)
            /\ dbWrite' = "inFlight"
       ELSE UNCHANGED <<dbChunks, chunkIndex, dbWrite>>

\* state of the storage-backed worker only
notInVolumeWorker == <<commitMessage, dir, logFails, storage>>

\* a call of an external collaborator with the arguments the properties use
VolumeCall(op, workspace, resume) ==
  calls' = Append(calls, [op |-> op, workspace |-> workspace, resumeSessionId |-> resume])

\* POST /execute accepted by an idle worker
VolumePostExecute ==
  /\ proc = "up"
  /\ workerStatus = "idle"
  /\ pc = "idle"
  /\ \E r \in VolumeRequests :
       /\ request' = r
       /\ sessionId' = IF r.resumeSessionId # NoResume THEN r.resumeSessionId ELSE jobs
  /\ workerStatus' = "busy"
  /\ execCount' = execCount + 1
  /\ pc' = "volumeStart"
  /\ UNCHANGED <<env, faults, proc, exitCode, jobs>>
  /\ UNCHANGED <<err, metadata, providerSessionId, workspacePath, provEvents, calls>>
  /\ UNCHANGED <<sinkVars, dbStatus, volumeVars, notInVolumeWorker>>

\* a recovery that clones into the directory named after the repository
RecoveryOptionsWithoutDirectory(sid, md) ==
  [repoUrl |-> md.github.repoUrl, branch |-> md.github.branch,
   directory |-> Undefined, workspaceRoot |-> getSessionWorkspace(sid)]

\* the options of the pullRepository call of the workspace recovery
RecoveryOptions(sid, md) ==
  [repoUrl |-> md.github.repoUrl, branch |-> md.github.branch,
   directory |-> md.github.clonedPath, workspaceRoot |-> getSessionWorkspace(sid)]

\* Steps 1 and 2 up to the first suspension: what execute has done when it
\* reaches the recovery's pullRepository, the connected event or its catch
\* block
VolumeStartResult ==
  LET thrown(m) == [pc |-> "volumeCatch", err |-> m, metadata |-> metadata,
                    providerSessionId |-> providerSessionId,
                    workspacePath |-> workspacePath, volume |-> volume,
                    events |-> <<>>]
      md == loadMetadata(sessionId)
      wp == getExecutionWorkspace(sessionId, md)
      resumed(next, evs) ==
        [pc |-> next, err |-> err, metadata |-> md,
         providerSessionId |-> md.providerSessionId, workspacePath |-> wp,
         volume |-> volume, events |-> evs]
  IN IF validateRequest(request) # NoError THEN thrown(validateRequest(request))
     ELSE IF ~isResuming
       THEN [pc |-> "volumeConnected", err |-> err,
             metadata |-> createMetadata(sessionId, request.codingAssistantProvider),
             providerSessionId |-> providerSessionId,
             workspacePath |-> getSessionWorkspace(sessionId),
             volume |-> createSessionWorkspace(volume, sessionId), events |-> <<>>]
     ELSE IF ~sessionExists(sessionId) THEN thrown(MsgSessionNotFound)
     ELSE IF ~md.present THEN thrown(MsgSessionMetadataNotFound)
     ELSE IF existsSync(wp) THEN resumed("volumeConnected", <<>>)
     ELSE IF md.github.present
       THEN resumed("volumeRecover", <<Event("message", "recovering")>>)
     ELSE [thrown(MsgNoGithubMetadata) EXCEPT
             !.metadata = md, !.providerSessionId = md.providerSessionId,
             !.workspacePath = wp]

VolumeStart ==
  /\ Running("volumeStart")
  /\ LET r == VolumeStartResult IN
       /\ pc' = r.pc
       /\ err' = r.err
       /\ metadata' = r.metadata
       /\ providerSessionId' = r.providerSessionId
       /\ workspacePath' = r.workspacePath
       /\ volume' = r.volume
       /\ VolumeSendEvents(r.events)
  /\ UNCHANGED <<request, sessionId, provEvents, calls, ended, transport, dbStatus, remote>>
  /\ UNCHANGED <<serverVars, notInVolumeWorker>>

\* the branch the recovered metadata records: the clone's, when it differs
RecoveredMetadata(md, pullResult) ==
  IF pullResult.branch # md.github.branch
    THEN [md EXCEPT !.github.branch = pullResult.branch]
    ELSE md

\* Recovery: re-clone into the session root; a failure is re-thrown with the
\* recovery message
VolumeRecover ==
  /\ Running("volumeRecover")
  /\ LET options == RecoveryOptions(sessionId, metadata) IN
       /\ VolumeCall("pullRepository", pullTarget(options), "none")
       /\ \E outcome \in PullOutcomes(options) :
            IF outcome \in {"cloned", "pulled"}
              THEN LET pullResult == pullRepository(options, outcome)
                       md == RecoveredMetadata(metadata, pullResult)
                   IN /\ workspacePath' = pullResult.targetPath
                      /\ metadata' = md
                      /\ volume' = IF md # metadata
                                     THEN writeMetadata(afterGit(volume, options),
                                                        sessionId, md)
                                     ELSE afterGit(volume, options)
                      /\ VolumeSendEvents(<<Event("github_pull_progress", "recovered")>>)
                      /\ pc' = "volumeConnected"
                      /\ err' = err
              ELSE /\ pc' = "volumeCatch"
                   /\ err' = MsgRecoveryFailed \o PullFailure(outcome)
                   /\ VolumeSendEvents(<<>>)
                   /\ UNCHANGED <<workspacePath, metadata, volume>>
  /\ UNCHANGED <<request, sessionId, providerSessionId, provEvents, ended, transport,
                 dbStatus, remote>>
  /\ UNCHANGED <<serverVars, notInVolumeWorker>>

\* Step 3: the connected event; Step 4 starts for a new session with a
\* repository
VolumeConnected ==
  /\ Running("volumeConnected")
  /\ IF request.github.present /\ ~isResuming
       THEN /\ VolumeSendEvents(<<Event("connected", "none"), Event("message", "pulling")>>)
            /\ pc' = "volumePull"
            /\ UNCHANGED <<calls, dbStatus, err>>
       ELSE /\ VolumeSendEvents(<<Event("connected", "none")>>)
            /\ pc' = "volumeStatusActive"
            /\ UNCHANGED <<calls, dbStatus, err>>
  /\ UNCHANGED <<request, sessionId, metadata, providerSessionId, workspacePath,
                 provEvents, ended, transport, volumeVars>>
  /\ UNCHANGED <<serverVars, notInVolumeWorker>>

\* the options of the pullRepository call of Step 4
PullOptions ==
  [repoUrl |-> request.github.repoUrl, branch |-> request.github.branch,
   directory |-> request.github.directory, workspaceRoot |-> workspacePath]

\* Step 4: pull the repository, record it in the metadata and save them
VolumePull ==
  /\ Running("volumePull")
  /\ VolumeCall("pullRepository", pullTarget(PullOptions), "none")
  /\ \E outcome \in PullOutcomes(PullOptions) :
       IF outcome \in {"cloned", "pulled"}
         THEN LET pullResult == pullRepository(PullOptions, outcome)
                  repoName == ReplacePrefix(pullResult.targetPath, workspacePath)
                  md == [metadata EXCEPT
                           !.github = [present |-> TRUE,
                                       repoUrl |-> request.github.repoUrl,
                                       branch |-> pullResult.branch,
                                       clonedPath |-> repoName[1]]]
              IN /\ workspacePath' = pullResult.targetPath
                 /\ metadata' = md
                 /\ volume' = writeMetadata(afterGit(volume, PullOptions), sessionId, md)
                 /\ VolumeSendEvents(<<Event("github_pull_progress", "completed")>>)
                 /\ pc' = "volumeStatusActive"
                 /\ err' = err
         ELSE /\ pc' = "volumeCatch"
              /\ err' = PullFailure(outcome)
              /\ VolumeSendEvents(<<>>)
              /\ UNCHANGED <<workspacePath, metadata, volume>>
  /\ UNCHANGED <<request, sessionId, providerSessionId, provEvents, ended, transport,
                 dbStatus, remote>>
  /\ UNCHANGED <<serverVars, notInVolumeWorker>>

\* updateSession(active), then Step 5 and the call of provider.execute with
\* the workspace and the provider's session id
VolumeStatusActive ==
  /\ Running("volumeStatusActive")
  /\ \E outcome \in IF request.database.present
                      THEN Outcomes({"resolves"}, {"rejects"}) ELSE {"skipped"} :
       IF outcome = "rejects"
         THEN /\ pc' = "volumeCatch"
              /\ err' = MsgStatusUpdateFailed
              /\ VolumeSendEvents(<<>>)
              /\ UNCHANGED <<calls, dbStatus>>
         ELSE /\ dbStatus' = IF outcome = "resolves" THEN Append(dbStatus, "active")
                             ELSE dbStatus
              /\ VolumeSendEvents(<<Event("message", "executing")>>)
              /\ VolumeCall("provider.execute", workspacePath, providerSessionId)
              /\ pc' = "volumeExecute"
              /\ err' = err
  /\ UNCHANGED <<request, sessionId, metadata, providerSessionId, workspacePath,
                 provEvents, ended, transport, volumeVars>>
  /\ UNCHANGED <<serverVars, notInVolumeWorker>>

\* SessionManager.updateProviderSessionId: load, set, save; nothing when the
\* metadata cannot be loaded
updateProviderSessionId(vol, sid, id) ==
  IF loadMetadata(sid).present
    THEN writeMetadata(vol, sid, [loadMetadata(sid) EXCEPT !.providerSessionId = id])
    ELSE vol

\* Step 6: the onEvent callback, once per event of the capability
VolumeProviderEvent ==
  /\ Running("volumeExecute")
  /\ Len(provEvents) < MaxProviderEvents
  /\ \E kind \in ProviderEventKinds(Len(provEvents)) :
       /\ provEvents' = Append(provEvents, kind)
       /\ volume' = IF kind = "init"
                      THEN updateProviderSessionId(volume, sessionId, CorrelationId(jobs))
                      ELSE volume
       /\ VolumeSendEvents(<<Event("assistant_message", forwarded(kind))>>)
  /\ UNCHANGED <<request, sessionId, pc, err, metadata, providerSessionId, workspacePath,
                 calls, ended, transport, dbStatus, remote>>
  /\ UNCHANGED <<serverVars, notInVolumeWorker>>

\* Step 6 settles; Step 7 sends the completed event
VolumeProviderSettles ==
  /\ Running("volumeExecute")
  /\ \E outcome \in Outcomes({"returns"}, {"throws"}) :
       IF outcome = "returns"
         THEN /\ VolumeSendEvents(<<Event("completed", "none")>>)
              /\ volume' = [volume EXCEPT !.completed = @ \cup {sessionId}]
              /\ pc' = "volumeStatusCompleted"
              /\ err' = err
         ELSE /\ VolumeSendEvents(<<>>)
              /\ pc' = "volumeCatch"
              /\ err' = MsgCapabilityFailed
              /\ UNCHANGED volume
  /\ UNCHANGED <<request, sessionId, metadata, providerSessionId, workspacePath,
                 provEvents, calls, ended, transport, dbStatus, remote>>
  /\ UNCHANGED <<serverVars, notInVolumeWorker>>

\* updateSession(completed), then res.end()
VolumeStatusCompleted ==
  /\ Running("volumeStatusCompleted")
  /\ \E outcome \in IF request.database.present
                      THEN Outcomes({"resolves"}, {"rejects"}) ELSE {"skipped"} :
       IF outcome = "rejects"
         THEN /\ pc' = "volumeCatch"
              /\ err' = MsgStatusUpdateFailed
              /\ UNCHANGED <<dbStatus, ended>>
         ELSE /\ dbStatus' = IF outcome = "resolves" THEN Append(dbStatus, "completed")
                             ELSE dbStatus
              /\ ended' = TRUE
              /\ pc' = "returned"
              /\ err' = err
  /\ UNCHANGED <<request, sessionId, metadata, providerSessionId, workspacePath,
                 provEvents, calls, stream, transport, chunkIndex, dbChunks, dbWrite,
                 volumeVars>>
  /\ UNCHANGED <<serverVars, notInVolumeWorker>>

\* the catch block: the error event, updateSession(error) whose rejection is
\* logged, res.end() and the re-throw
VolumeCatch ==
  /\ Running("volumeCatch")
  /\ VolumeSendEvents(<<ErrorEvent(err)>>)
  /\ \E outcome \in IF request.database.present
                      THEN Outcomes({"resolves"}, {"rejects"}) ELSE {"skipped"} :
       dbStatus' = IF outcome = "resolves" THEN Append(dbStatus, "error") ELSE dbStatus
  /\ ended' = TRUE
  /\ pc' = "threw"
  /\ UNCHANGED <<request, sessionId, err, metadata, providerSessionId, workspacePath,
                 provEvents, calls, transport, volumeVars>>
  /\ UNCHANGED <<serverVars, notInVolumeWorker>>

\* the volume loses the clone of a session, or the whole session directory,
\* before a worker process receives its job
VolumePruned ==
  /\ proc = "up"
  /\ pc = "idle"
  /\ \E sid \in SessionIdSet :
       /\ sessionExists(sid)
       /\ \E whole \in BOOLEAN :
            /\ ~whole => \E p \in volume.paths : Len(p) = 3 /\ p[2] = sid
            /\ volume' =
                 [paths |-> {p \in volume.paths :
                               p[2] # sid \/ (~whole /\ Len(p) = 2)},
                  metadata |-> IF whole
                                 THEN [volume.metadata EXCEPT ![sid] = NullMetadata]
                                 ELSE volume.metadata,
                  head |-> [volume.head EXCEPT ![sid] = Undefined],
                  completed |-> IF whole THEN volume.completed \ {sid}
                                ELSE volume.completed]
  /\ UNCHANGED <<serverVars, jobVars, sinkVars, storage, dbStatus, remote>>

\* a branch of the remote repository other than its default branch is
\* deleted before a worker process receives its job
BranchDeleted ==
  /\ proc = "up"
  /\ pc = "idle"
  /\ BranchFeature \in remote
  /\ remote' = remote \ {BranchFeature}
  /\ UNCHANGED <<serverVars, jobVars, sinkVars, storage, dbStatus, volume>>

\* a worker with an empty volume; the remote repository has its default
\* branch and one more
InitVolume ==
  /\ env = [provider |-> Undefined, authentication |-> AuthUndefined]
  /\ faults = TRUE
  /\ workerStatus = "idle"
  /\ proc = "up"
  /\ exitCode = -1
  /\ jobs = 1
  /\ execCount = 0
  /\ request = NoRequest
  /\ sessionId = -1
  /\ pc = "idle"
  /\ err = NoError
  /\ metadata = NoMetadata
  /\ providerSessionId = "none"
  /\ workspacePath = "root"
  /\ provEvents = <<>>
  /\ calls = <<>>
  /\ commitMessage = "none"
  /\ stream = <<>>
  /\ ended = FALSE
  /\ transport = "open"
  /\ chunkIndex = 0
  /\ dir = NoDir
  /\ logFails = 0
  /\ storage = [s \in SessionIdSet |-> NoDir]
  /\ dbChunks = <<>>
  /\ dbStatus = <<>>
  /\ dbWrite = "none"
  /\ volume = EmptyVolume
  /\ remote = {BranchMain, BranchFeature}

NextVolume ==
  \/ VolumePostExecute
  \/ VolumeStart
  \/ VolumeRecover
  \/ VolumeConnected
  \/ VolumePull
  \/ VolumeStatusActive
  \/ VolumeProviderEvent
  \/ VolumeProviderSettles
  \/ VolumeStatusCompleted
  \/ VolumeCatch
  \/ VolumePruned
  \/ BranchDeleted
  \/ ChunksSettle
  \/ ScheduleExit
  \/ ProcessExit
  \/ Restart

SpecVolume == InitVolume /\ [][NextVolume]_vars

(***************************************************************************)
(* Properties.                                                             *)
(***************************************************************************)
\* the positions of the events of the given types in sequence s
Positions(s, types) == {i \in 1..Len(s) : s[i].type \in types}

\* the positions of the calls with the given names in the call history
CallPositions(names) == {i \in 1..Len(calls) : calls[i] \in names}

\* the job passed validateRequest
PassedValidation == pc # "idle" /\ validateRequest(request) = NoError

\* C1: the stream of every job holds exactly one terminal event (completed
\* or error), and that event is the last event of the stream: at no time is
\* a terminal event followed by another event, and when the stream is ended
\* there is one.
C1_ExactlyOneTerminalEventLast ==
  /\ \A i \in Positions(stream, {"completed", "error"}) : i = Len(stream)
  /\ ended => Cardinality(Positions(stream, {"completed", "error"})) = 1

C3_AtMostOneJobPerProcess ==
  /\ execCount <= 1
  /\ execCount = 1 =>
       /\ workerStatus = "busy"
       /\ \A r \in Requests : Reply(r) = 429

\* the job has terminated and the server, still up, answers 429 to a
\* request it would have accepted when idle
C3_Witness ==
  /\ execCount = 1
  /\ pc = "done"
  /\ proc = "exiting"
  /\ \E r \in WellFormed : Reply(r) = 429
\* C4: the chunkIndex values dispatched to the remote sink for one sink
\* session id are strictly increasing over all events of that session, the
\* events of later jobs included.
C4_ChunkIndexStrictlyIncreasing ==
  \A i, j \in 1..Len(dbChunks) : i < j => dbChunks[i] < dbChunks[j]

\* the code of every error event of the stream is code
ErrorCodeIs(code) ==
  \A i \in Positions(stream, {"error"}) : stream[i].detail = code

\* C5: a request with both a repository spec and a resume id fails with
\* invalid_request, and until that failure no storage, repository, remote
\* sink or capability operation is made.
C5_RepositoryAndResumeIsInvalidRequest ==
  (pc # "idle" /\ request.github.present /\ isResuming) =>
    /\ ErrorCodeIs("invalid_request")
    /\ Positions(stream, {"completed"}) = {}
    /\ ended => Positions(stream, {"error"}) # {}
    /\ Positions(stream, {"error"}) = {} =>
         calls = <<>> /\ dbChunks = <<>> /\ dbStatus = <<>>

\* absent, empty or blank
IsMissing(s) == Falsy(s) \/ Trim(s) = Empty

\* C6: a job whose request lacks the user text, the provider id or the
\* credentials creates no workspace directory and reports invalid_request.
C6_MissingFieldIsInvalidRequest ==
  (/\ pc # "idle"
   /\ \/ IsMissing(request.userRequest)
      \/ IsMissing(request.codingAssistantProvider)
      \/ IsMissing(request.codingAssistantAuthentication.text)) =>
    /\ ~dir.exists
    /\ ErrorCodeIs("invalid_request")
    /\ Positions(stream, {"completed"}) = {}
    /\ ended => Positions(stream, {"error"}) # {}

\* durable storage held no session for the job's session id when the job
\* started: what it holds now, if anything, this job uploaded
UnknownSession ==
  storage[sessionId].exists => CallPositions({"uploadSession:ok"}) # {}

\* C7: a job that resumes an id for which durable storage holds no session
\* fails with session_not_found, never invokes the capability and creates
\* no metadata record for the id.
C7_UnknownResumeIdIsSessionNotFound ==
  (PassedValidation /\ isResuming /\ UnknownSession) =>
    /\ CallPositions({"provider.execute"}) = {}
    /\ dir.meta = NoMetadata /\ storage[sessionId].meta = NoMetadata
    /\ Positions(stream, {"completed"}) = {}
    /\ err # MsgStorageDown => ErrorCodeIs("session_not_found")

UploadAttempts == CallPositions({"uploadSession:ok", "uploadSession:failed"})

PipelineFailures ==
  {MsgUserRequestRequired, MsgProviderRequired, MsgAuthenticationRequired,
   MsgUnsupportedProvider, MsgCannotProvideBoth, MsgRepoUrlRequired,
   MsgDbSessionIdRequired, MsgDbAccessTokenRequired, MsgStorageDown,
   MsgCloneFailed, MsgStatusUpdateFailed, MsgCapabilityFailed}

LogTotal(d) == d.log.root + d.log.repo

\* C9: a step in which the local log append fails still writes the event to
\* the live transport and lets execute continue at its next statement; a
\* step in which a remote appendChunk write is rejected changes nothing but
\* the state of that write; and the error a job ends with is always the
\* failure of a pipeline stage, never the failure of a sink.
C9_SinkFailureChangesNothingElse ==
  [][/\ logFails' # logFails =>
          /\ Len(stream') = Len(stream) + 1
          /\ SubSeq(stream', 1, Len(stream)) = stream
          /\ err' = err
          /\ pc' \notin {"catch", "threw"}
     /\ (dbWrite = "inFlight" /\ dbWrite' = "rejected") =>
          UNCHANGED <<serverVars, jobVars, stream, ended, dir, dbChunks, chunkIndex,
                      durableVars>>
     /\ err' # err => err' \in PipelineFailures]_vars

\* a job that lost a log append and a remote write and ended with completed
C9_Witness ==
  /\ logFails > 0
  /\ dbWrite = "rejected"
  /\ ended
  /\ err = NoError
  /\ Positions(stream, {"completed"}) # {}

\* the positions of execute whose next statement is a sendEvent call
SendingPositions == {"connected", "executing", "completed", "commitFailed", "catch"}

C11_StatusUpdateNeverAborts ==
  /\ err # MsgStatusUpdateFailed
  /\ (pc = "catch" /\ CallPositions({"updateSession"}) # {}) =>
       CallPositions({"provider.execute"}) # {}

\* the stages of the commit_progress events of the stream, in order
CommitStages ==
  LET q == SelectSeq(stream, LAMBDA e : e.type = "commit_progress")
  IN [i \in 1..Len(q) |-> q[i].detail]

\* the positions of execute after the auto-commit block
AfterAutoCommit ==
  {"upload", "completed", "statusCompleted", "cleanup", "returned"}

\* no git operation of the auto-commit block failed
NoAutoCommitFailure ==
  \A i \in 1..Len(CommitStages) : CommitStages[i] # "completed:failed"

\* C12: in a new-session job with a repository in which no git operation
\* failed: after the auto-commit block, the commit_progress events are
\* exactly analyzing, generating_message, committing, completed (with the
\* commit hash) when auto-commit is enabled and changes were found, and
\* there is none when auto-commit is disabled or no changes were found.
C12_FourCommitProgressEventsOrNone ==
  (/\ PassedValidation
   /\ request.github.present
   /\ pc \in AfterAutoCommit
   /\ NoAutoCommitFailure) =>
    /\ CommitStages \in
         {<<>>, <<"analyzing", "generating_message", "committing", "completed:hash">>}
    /\ request.autoCommit = "false" => CommitStages = <<>>
    /\ CallPositions({"hasChanges"}) = {} => CommitStages = <<>>

AutoCommitPositions == {"hasChanges", "statusDiff", "commitMessage", "commit"}

AutoCommitStepStaysOutOfCatch ==
  pc \in AutoCommitPositions \cup {"commitFailed"} =>
    (pc' \notin {"catch", "threw"} /\ err' = err /\ Positions(stream', {"error"}) = {})

CommitFailedReportsAndContinues ==
  (pc = "commitFailed" /\ pc' # pc) =>
    (pc' = "upload" /\ stream' = Append(stream, Event("commit_progress", "completed:failed")))

\* C13: a failure in a stage of the auto-commit block never makes the job
\* fail: no step of the block enters execute's catch block or changes the
\* caught error; after a failed stage the next event is commit_progress
\* with stage completed and execute goes on to the upload; and a job that
\* ends without a failure of another stage has emitted completed.
C13_AutoCommitFailureNeverFailsJob ==
  /\ [][AutoCommitStepStaysOutOfCatch]_vars
  /\ [][CommitFailedReportsAndContinues]_vars
  /\ [](ended /\ err = NoError => Positions(stream, {"completed"}) # {})

\* a job in which a git operation of the auto-commit block failed and which
\* uploaded the session and ended with completed
C13_Witness ==
  /\ ended
  /\ err = NoError
  /\ ~NoAutoCommitFailure
  /\ CallPositions({"uploadSession:ok"}) # {}
  /\ Positions(stream, {"completed"}) # {}
  /\ Positions(stream, {"error"}) = {}

FallbackCommitMessage == "chore: auto-commit changes"

\* C14: when auto-commit runs, changes are present and no git operation
\* fails, a commit is created, also when the summarization call fails or no
\* credential can be extracted from the request; in those two cases the
\* commit message is the fixed fallback message.
C14_CommitCreatedWithFallbackMessage ==
  (/\ pc \in AfterAutoCommit
   /\ \E i \in 1..Len(CommitStages) : CommitStages[i] = "generating_message"
   /\ NoAutoCommitFailure) =>
     /\ CallPositions({"commitAll"}) # {}
     /\ ~extractApiKey(request.codingAssistantAuthentication) =>
          commitMessage = FallbackCommitMessage

LastStatus == IF dbStatus = <<>> THEN "none" ELSE dbStatus[Len(dbStatus)]

TerminalStatuses == {"completed", "error"}

\* C15: with a remote status sink configured, once the job has ended and a
\* terminal status was written, the last status written is completed
\* exactly when the stream contains a completed event and error exactly
\* when it contains an error event, and active is never written after a
\* terminal status.
C15_LastStatusAgreesWithTerminalEvent ==
  (ended /\ request.database.present /\ LastStatus \in TerminalStatuses) =>
    /\ LastStatus = "completed" <=> Positions(stream, {"completed"}) # {}
    /\ LastStatus = "error" <=> Positions(stream, {"error"}) # {}
    /\ \A i, j \in 1..Len(dbStatus) :
         (i < j /\ dbStatus[i] \in TerminalStatuses) => dbStatus[j] # "active"

\* the positions of the calls of operation op in the call history of the
\* volume-based worker's job
VolumeCallPositions(op) == {i \in 1..Len(calls) : calls[i].op = op}

\* the job runs in the volume-based worker and resumes a session
VolumeResuming ==
  /\ pc \in {"volumeRecover", "volumeConnected", "volumeStatusActive", "volumeExecute",
             "volumeStatusCompleted", "volumeCatch", "returned", "threw"}
  /\ isResuming

\* the workspace of the resumed session was missing and a recovery started
RecoveryStarted == VolumeResuming /\ VolumeCallPositions("pullRepository") # {}

\* C16: when a job resumes a session whose metadata record a repository and
\* whose execution workspace is absent, the capability is only invoked
\* after the repository was cloned again, and the workspace path handed to
\* it is the session root joined with the recorded relative clonedPath,
\* which exists on the volume.
C16_RecoveredWorkspaceIsRecordedPath ==
  (RecoveryStarted /\ VolumeCallPositions("provider.execute") # {}) =>
    \A i \in VolumeCallPositions("provider.execute") :
      /\ calls[i].workspace =
           PathJoin(getSessionWorkspace(sessionId),
                    <<volume.metadata[sessionId].github.clonedPath>>)
      /\ existsSync(calls[i].workspace)
      /\ \E j \in VolumeCallPositions("pullRepository") :
           j < i /\ calls[j].workspace = calls[i].workspace

\* a resumed job that found the clone in the directory named in the first
\* request missing, cloned again and invoked the capability there
C16_Witness ==
  /\ RecoveryStarted
  /\ pc = "volumeExecute"
  /\ VolumeCallPositions("provider.execute") # {}
  /\ volume.metadata[sessionId].github.clonedPath = Directory
  /\ workspacePath = <<"session", sessionId, Directory>>

\* the classifications getErrorCode can return
ErrorCodes ==
  {"session_not_found", "auth_error", "repo_not_found", "invalid_request",
   "internal_error"}

\* the resumed session's workspace was missing and could not be recovered:
\* no repository info in the metadata, or the clone failed
WorkspaceRecoveryFails ==
  /\ VolumeResuming
  /\ \/ err = MsgNoGithubMetadata
     \/ /\ Len(err) > Len(MsgRecoveryFailed)
        /\ SubSeq(err, 1, Len(MsgRecoveryFailed)) = MsgRecoveryFailed

\* C17: when a resumed session's workspace is missing and cannot be
\* recovered, the job ends with one error event whose classification is the
\* workspace-recovery failure, a classification of its own and none of the
\* others; the clone was attempted at most once and the capability was not
\* invoked.
C17_RecoveryFailureIsClassified ==
  (ended /\ WorkspaceRecoveryFails) =>
    /\ Cardinality(Positions(stream, {"error"})) = 1
    /\ \A i \in Positions(stream, {"error"}) : stream[i].detail \notin ErrorCodes
    /\ Cardinality(VolumeCallPositions("pullRepository")) <= 1
    /\ VolumeCallPositions("provider.execute") = {}

\* C18: a workspace recovery whose recorded branch no longer exists in the
\* repository does not fail for that reason: it succeeds on the branch the
\* clone resolves to, and when the capability is invoked the persisted
\* metadata name a branch of the repository.
C18_RecoveryFallsBackToExistingBranch ==
  (RecoveryStarted /\ pc # "volumeRecover") =>
    /\ err # MsgRecoveryFailed \o MsgRemoteBranchNotFound
    /\ VolumeCallPositions("provider.execute") # {} =>
         volume.metadata[sessionId].github.branch \in remote

\* the job has observed the capability's initialization payload
InitObserved ==
  \E i \in Positions(stream, {"assistant_message"}) : stream[i].detail = "init"

AfterUpload == {"completed", "statusCompleted", "cleanup", "returned", "done"}

\* C19: a job that observed an initialization payload with correlation id c
\* and whose upload succeeded leaves c in the stored metadata of its
\* session, and a job that resumes a stored session invokes the capability
\* with the provider session id of the stored metadata as resumeSessionId
\* (the variable providerSessionId is the option passed at the call).
C19_ResumePassesStoredCorrelationId ==
  /\ (pc \in AfterUpload /\ InitObserved /\ CallPositions({"uploadSession:ok"}) # {}) =>
       storage[sessionId].meta.providerSessionId = CorrelationId(jobs)
  /\ (isResuming /\ pc = "execute" /\ storage[sessionId].exists) =>
       /\ CallPositions({"provider.execute"}) # {}
       /\ providerSessionId = storage[sessionId].meta.providerSessionId
       /\ providerSessionId \in {"none"} \cup {CorrelationId(j) : j \in 1..(jobs - 1)}

\* the second job resumes the session of the first, which had observed the
\* initialization payload, and invokes the capability with that id
C19_Witness ==
  /\ jobs = 2
  /\ isResuming
  /\ pc = "execute"
  /\ CallPositions({"provider.execute"}) # {}
  /\ storage[sessionId].meta.providerSessionId = CorrelationId(1)
  /\ providerSessionId = CorrelationId(1)

\* the payloads of the capability's events in the stream, in stream order
ForwardedPayloads ==
  LET q == SelectSeq(stream, LAMBDA e : e.type = "assistant_message")
  IN [i \in 1..Len(q) |-> q[i].detail]

ExecutingMessages ==
  {i \in Positions(stream, {"message"}) : stream[i].detail = "executing"}

AutoCommitCalls == {"hasChanges", "getStatus", "generateCommitMessage", "commitAll"}

C22_ExitScheduledAfterJob ==
  /\ (execCount > 0) ~> (proc = "exited")
  /\ [](pc = "returned" => err = NoError /\ Positions(stream, {"completed"}) # {})
  /\ [](pc = "threw" => err # NoError /\ Positions(stream, {"error"}) # {})
  /\ [](proc \in {"exiting", "exited"} => exitCode = IF err = NoError THEN 0 ELSE 1)
  /\ [](proc = "up" /\ pc \in {"idle", "validate"} => exitCode = -1)
  /\ [](execCount > 0 => workerStatus = "busy")

\* a failed job whose process has exited with code 1, still busy
C22_Witness ==
  /\ proc = "exited"
  /\ exitCode = 1
  /\ err # NoError
  /\ workerStatus = "busy"
  /\ execCount = 1

\* C23: in a new-session job for which a session name was generated and
\* whose success-path upload succeeded, the metadata record held by durable
\* storage contains that session name.
C23_UploadedMetadataHoldSessionName ==
  (/\ pc \in AfterUpload
   /\ ~isResuming
   /\ err = NoError
   /\ metadata.sessionName # "none"
   /\ CallPositions({"uploadSession:ok"}) # {}) =>
     storage[sessionId].meta.sessionName = metadata.sessionName

\* the workspace of session sid according to its persisted metadata: the
\* recorded clonedPath under the session root, or the session root
RecordedWorkspace(sid) ==
  IF volume.metadata[sid].github.present
    THEN <<"session", sid, volume.metadata[sid].github.clonedPath>>
    ELSE <<"session", sid>>

RepositoryInfoKept ==
  \A sid \in SessionIdSet :
    (volume.metadata[sid].github.present /\ volume'.metadata[sid].present) =>
      /\ volume'.metadata[sid].github.present
      /\ volume'.metadata[sid].github.clonedPath = volume.metadata[sid].github.clonedPath

BranchExistsCalls == {"branchExists:true", "branchExists:false", "branchExists:throws"}
CreateBranchCalls == {"createBranch:ok", "createBranch:throws"}

\* the branch step ends at the status update that precedes the execution,
\* without an error and without an error event
BranchStepContinues ==
  (pc = "branch" /\ pc' # "branch") =>
    /\ pc' = "statusActive"
    /\ err' = err
    /\ err = NoError
    /\ Positions(stream', {"error"}) = {}

\* C25: branchExists is asked only for a pre-computed branch name;
\* createBranch is called only right after branchExists returned false; the
\* branch_created event is emitted only when createBranch succeeded, and it
\* names the pre-computed branch; whatever branchExists or createBranch does,
\* the job goes on to the next step without an error event.
C25_BranchCreationIsGuardedAndNonFatal ==
  /\ [](CallPositions(BranchExistsCalls) # {} =>
          /\ branchNameOf(metadata, request) # "none"
          /\ Cardinality(CallPositions(BranchExistsCalls)) = 1)
  /\ [](\A i \in CallPositions(CreateBranchCalls) :
          i > 1 /\ calls[i - 1] = "branchExists:false")
  /\ [](\A i \in Positions(stream, {"branch_created"}) :
          /\ CallPositions({"createBranch:ok"}) # {}
          /\ stream[i].detail = metadata.github.branchName
          /\ stream[i].detail # "none")
  /\ [][BranchStepContinues]_vars

\* createBranch failed, no branch_created event was sent, and the job went
\* on to invoke the capability
C25_Witness ==
  /\ CallPositions({"createBranch:throws"}) # {}
  /\ Positions(stream, {"branch_created"}) = {}
  /\ CallPositions({"provider.execute"}) # {}
  /\ err = NoError

(***************************************************************************)
(* SessionManager.saveMetadata and loadMetadata applied to metadata        *)
(* records in any order (src/unified-worker/src/providers/                 *)
(* ClaudeCodeProvider.ts l.138-166).                                       *)
(***************************************************************************)
MetadataIds == 0..1

\* the SessionMetadata records saved for session sid: with and without a
\* session name and a repository
MetadataRecords(sid) ==
  {[present |-> TRUE, sessionId |-> sid, provider |-> p, sessionName |-> n,
    providerSessionId |-> "none", github |-> g] :
     p \in {ClaudeCode, Codex}, n \in {"none", "name"},
     g \in {NoGithubInfo,
            [present |-> TRUE, repoUrl |-> RepoUrl, branch |-> BranchMain,
             clonedPath |-> Directory]}}

\* sessionManager.saveMetadata(sid, md)
SaveMetadata ==
  /\ proc = "up"
  /\ pc = "sessionManager"
  /\ Len(calls) < MaxMetadataCalls
  /\ \E sid \in MetadataIds :
       \E md \in MetadataRecords(sid) :
         /\ volume' = writeMetadata(volume, sid, md)
         /\ calls' = Append(calls, [op |-> "saveMetadata", sessionId |-> sid,
                                    metadata |-> md])
  /\ UNCHANGED <<request, commitMessage, sessionId, metadata, providerSessionId,
                 workspacePath, provEvents, pc, err, remote>>
  /\ UNCHANGED <<serverVars, sinkVars, storage, dbStatus>>

\* sessionManager.loadMetadata(sid)
LoadMetadata ==
  /\ proc = "up"
  /\ pc = "sessionManager"
  /\ Len(calls) < MaxMetadataCalls
  /\ \E sid \in MetadataIds :
       calls' = Append(calls, [op |-> "loadMetadata", sessionId |-> sid,
                               metadata |-> loadMetadata(sid)])
  /\ UNCHANGED <<request, commitMessage, sessionId, metadata, providerSessionId,
                 workspacePath, provEvents, pc, err>>
  /\ UNCHANGED <<serverVars, sinkVars, durableVars>>

\* a volume holding the directories of the sessions, without metadata files
InitMetadata ==
  /\ env = [provider |-> Undefined, authentication |-> AuthUndefined]
  /\ faults = TRUE
  /\ workerStatus = "idle"
  /\ proc = "up"
  /\ exitCode = -1
  /\ jobs = 1
  /\ execCount = 0
  /\ request = NoRequest
  /\ sessionId = -1
  /\ pc = "sessionManager"
  /\ err = NoError
  /\ metadata = NoMetadata
  /\ providerSessionId = "none"
  /\ workspacePath = "root"
  /\ provEvents = <<>>
  /\ calls = <<>>
  /\ commitMessage = "none"
  /\ stream = <<>>
  /\ ended = FALSE
  /\ transport = "open"
  /\ chunkIndex = 0
  /\ dir = NoDir
  /\ logFails = 0
  /\ storage = [s \in SessionIdSet |-> NoDir]
  /\ dbChunks = <<>>
  /\ dbStatus = <<>>
  /\ dbWrite = "none"
  /\ volume = [EmptyVolume EXCEPT !.paths = {getSessionWorkspace(s) : s \in MetadataIds}]
  /\ remote = {BranchMain, BranchFeature}

NextMetadata ==
  \/ SaveMetadata
  \/ LoadMetadata

SpecMetadata == InitMetadata /\ [][NextMetadata]_vars

\* the last save for session sid among the first n calls, or 0
LastSave(sid, n) ==
  LET saves == {i \in 1..n : calls[i].op = "saveMetadata" /\ calls[i].sessionId = sid}
  IN IF saves = {} THEN 0 ELSE CHOOSE i \in saves : \A j \in saves : j <= i

SameFields(a, b) ==
  /\ a.sessionId = b.sessionId
  /\ a.provider = b.provider
  /\ a.sessionName = b.sessionName
  /\ a.github = b.github

\* C26: loading the metadata of a session id returns the sessionId,
\* provider, sessionName and github fields of the record saved last for
\* that id, whatever was saved for it before, and null if nothing was saved.
C26_LoadReturnsLastSavedRecord ==
  \A j \in 1..Len(calls) :
    calls[j].op = "loadMetadata" =>
      LET i == LastSave(calls[j].sessionId, j - 1) IN
      IF i = 0
        THEN ~calls[j].metadata.present
        ELSE /\ calls[j].metadata.present
             /\ SameFields(calls[j].metadata, calls[i].metadata)

\* two saves for the same session id that differ in name, provider and
\* repository, then a load that returned the fields of the second
C26_Witness ==
  /\ Len(calls) = 3
  /\ calls[1].op = "saveMetadata"
  /\ calls[2].op = "saveMetadata"
  /\ calls[3].op = "loadMetadata"
  /\ calls[1].sessionId = calls[3].sessionId
  /\ calls[2].sessionId = calls[3].sessionId
  /\ calls[1].metadata.sessionName = "none"
  /\ calls[2].metadata.sessionName = "name"
  /\ calls[1].metadata.provider # calls[2].metadata.provider
  /\ ~calls[1].metadata.github.present
  /\ calls[2].metadata.github.present
  /\ SameFields(calls[3].metadata, calls[2].metadata)

(***************************************************************************)
(* GitHubClient.pullRepository called repeatedly for the workspaces of     *)
(* two sessions (src/unified-worker/src/providers/ClaudeCodeProvider.ts    *)
(* l.272-341).                                                             *)
(***************************************************************************)
GitOptions ==
  {[repoUrl |-> RepoUrl, branch |-> b, directory |-> Undefined,
    workspaceRoot |-> getSessionWorkspace(s)] :
     b \in {Undefined, BranchFeature}, s \in MetadataIds}

\* githubClient.pullRepository(options): the call is recorded with what it
\* found at the target path, the git commands it ran and what it returned
PullRepository ==
  /\ proc = "up"
  /\ pc = "githubClient"
  /\ Len(calls) < MaxGitCalls
  /\ \E options \in GitOptions :
       \E outcome \in PullOutcomes(options) :
         /\ calls' = Append(calls,
                            [op |-> "pullRepository", options |-> options,
                             existed |-> existsSync(pullTarget(options)),
                             commands |-> GitCommands(options),
                             returned |-> outcome \in {"cloned", "pulled"},
                             result |-> pullRepository(options, outcome)])
         /\ volume' = IF outcome \in {"cloned", "pulled"}
                        THEN afterGit(volume, options) ELSE volume
  /\ UNCHANGED <<request, commitMessage, sessionId, metadata, providerSessionId,
                 workspacePath, provEvents, pc, err, remote>>
  /\ UNCHANGED <<serverVars, sinkVars, storage, dbStatus>>

\* the session directories exist and hold no clone
InitGitHubClient ==
  /\ env = [provider |-> Undefined, authentication |-> AuthUndefined]
  /\ faults = TRUE
  /\ workerStatus = "idle"
  /\ proc = "up"
  /\ exitCode = -1
  /\ jobs = 1
  /\ execCount = 0
  /\ request = NoRequest
  /\ sessionId = -1
  /\ pc = "githubClient"
  /\ err = NoError
  /\ metadata = NoMetadata
  /\ providerSessionId = "none"
  /\ workspacePath = "root"
  /\ provEvents = <<>>
  /\ calls = <<>>
  /\ commitMessage = "none"
  /\ stream = <<>>
  /\ ended = FALSE
  /\ transport = "open"
  /\ chunkIndex = 0
  /\ dir = NoDir
  /\ logFails = 0
  /\ storage = [s \in SessionIdSet |-> NoDir]
  /\ dbChunks = <<>>
  /\ dbStatus = <<>>
  /\ dbWrite = "none"
  /\ volume = [EmptyVolume EXCEPT !.paths = {getSessionWorkspace(s) : s \in MetadataIds}]
  /\ remote = {BranchMain, BranchFeature}

SpecGitHubClient == InitGitHubClient /\ [][PullRepository]_vars

SeqElements(s) == {s[i] : i \in 1..Len(s)}

Stage(call) ==
  IF call = "downloadSession" THEN 2
  ELSE IF call \in {"pullRepository"} \cup BranchExistsCalls \cup CreateBranchCalls THEN 3
  ELSE IF call = "provider.execute" THEN 4
  ELSE IF call \in AutoCommitCalls THEN 5
  ELSE IF call \in {"uploadSession:ok", "uploadSession:failed"} THEN 6
  ELSE 0

CommitEvents == {i \in Positions(stream, {"commit_progress"}) :
                   stream[i].detail = "completed:hash"}

NothingWrittenAfterEnd ==
  ended =>
    /\ ended'
    /\ stream' = stream
    /\ dir'.log = dir.log
    /\ dbChunks' = dbChunks
    /\ chunkIndex' = chunkIndex

C30_ConnectedIsFirstEvent ==
  Positions(stream, {"connected"}) \subseteq {1}

\* a settling remote write changes neither the indexes dispatched nor the
\* counter
SettlingKeepsIndexes ==
  (dbWrite' # dbWrite /\ stream' = stream) =>
    dbChunks' = dbChunks /\ chunkIndex' = chunkIndex

\* C31: in a job with a remote sink the k-th event passed to sendEvent is
\* dispatched with chunkIndex k - 1: the indexes dispatched are 0, 1, 2, ...
\* in the order of the live transport, one per event, and the counter is the
\* number of events sent; the completion or failure of a write changes none
\* of them.
C31_ChunkIndexIsEventPosition ==
  /\ [](request.database.present =>
          /\ Len(dbChunks) = Len(stream)
          /\ \A k \in 1..Len(dbChunks) : dbChunks[k] = k - 1
          /\ chunkIndex = Len(stream))
  /\ [](~request.database.present => dbChunks = <<>> /\ chunkIndex = 0)
  /\ [][SettlingKeepsIndexes]_vars

\* a job with a remote sink sent at least three events, a write was
\* rejected, and the stream has ended
C31_Witness ==
  /\ request.database.present
  /\ Len(stream) >= 3
  /\ dbChunks[3] = 2
  /\ dbWrite = "rejected"
  /\ ended

\* C32: a job that resumes a session never runs auto-commit: none of the
\* calls of the auto-commit block is made and no commit_progress event is
\* emitted, also when the metadata record a repository and the request sets
\* autoCommit to true; a resume request that passed validation carries no
\* repository spec.
C32_ResumedJobNeverAutoCommits ==
  isResuming =>
    /\ CallPositions(AutoCommitCalls) = {}
    /\ Positions(stream, {"commit_progress"}) = {}
    /\ pc \notin {"hasChanges", "statusDiff", "commitMessage", "commit", "commitFailed"}
    /\ (CallPositions({"downloadSession"}) # {} => ~request.github.present)

\* the second job resumed the session the first created with a repository,
\* with autoCommit true, and returned after the capability had run
C32_Witness ==
  /\ jobs = 2
  /\ isResuming
  /\ request.autoCommit = "true"
  /\ metadata.github.present
  /\ CallPositions({"provider.execute"}) # {}
  /\ pc = "returned"

\* C33: a job that resumes a session whose earlier job ended with completed,
\* and whose directory is still on the volume, passes the session
\* resolution: it fails neither with "Session not found" nor with "Session
\* metadata not found".
C33_CompletedSessionCanBeResumed ==
  (isResuming /\ sessionId \in volume.completed /\ sessionExists(sessionId)) =>
    err \notin {MsgSessionNotFound, MsgSessionMetadataNotFound}

\* C34: every append to the local log made by sendEvent during a job is
\* addressed to the session root: no event is appended under the repository
\* directory, neither in the local session directory nor in the copy the
\* job uploads.
C34_LogAppendsGoToSessionRoot ==
  /\ dir.log.repo = 0
  /\ \A s \in SessionIdSet : storage[s].log.repo = 0

\* C35: when a job has ended, the session copy it left in durable storage
\* holds in its event log every event the job wrote to the live transport,
\* the terminal event included (no append to the log having failed).
C35_StoredLogHoldsEveryEvent ==
  (ended /\ logFails = 0 /\ CallPositions({"uploadSession:ok"}) # {}) =>
    LogTotal(storage[sessionId]) = Len(stream)

(***************************************************************************)
(* Start-up of the worker process (src/src/server.ts): the module calls    *)
(* orchestrator.initialize() without awaiting it and then app.listen, so   *)
(* the process serves requests while the initialization is pending.        *)
(***************************************************************************)
\* orchestrator.initialize() resolves: sessionStorage.initialize() is done
InitializeResolves ==
  /\ proc = "starting"
  /\ proc' = "up"
  /\ UNCHANGED <<env, faults, workerStatus, exitCode, jobs, execCount>>
  /\ UNCHANGED <<jobVars, sinkVars, durableVars>>

\* orchestrator.initialize() rejects: its catch handler calls
\* process.exit(1) at once, whatever the request handler is doing
InitializeRejects ==
  /\ proc = "starting"
  /\ proc' = "exited"
  /\ exitCode' = 1
  /\ UNCHANGED <<env, faults, workerStatus, jobs, execCount>>
  /\ UNCHANGED <<jobVars, sinkVars, durableVars>>

\* one process lifetime from the load of the server module, started without
\* defaults in the environment
InitStartup ==
  /\ env = [provider |-> Undefined, authentication |-> AuthUndefined]
  /\ faults = TRUE
  /\ workerStatus = "idle"
  /\ proc = "starting"
  /\ exitCode = -1
  /\ jobs = 1
  /\ execCount = 0
  /\ request = NoRequest
  /\ sessionId = -1
  /\ pc = "idle"
  /\ err = NoError
  /\ metadata = NoMetadata
  /\ providerSessionId = "none"
  /\ workspacePath = "root"
  /\ provEvents = <<>>
  /\ calls = <<>>
  /\ commitMessage = "none"
  /\ stream = <<>>
  /\ ended = FALSE
  /\ transport = "open"
  /\ chunkIndex = 0
  /\ dir = NoDir
  /\ logFails = 0
  /\ storage = [s \in SessionIdSet |-> NoDir]
  /\ dbChunks = <<>>
  /\ dbStatus = <<>>
  /\ dbWrite = "none"
  /\ volume = EmptyVolume
  /\ remote = {}

NextStartup ==
  \/ InitializeResolves
  \/ InitializeRejects
  \/ Next

SpecStartup == InitStartup /\ [][NextStartup]_vars

\* C36: no job runs while orchestrator.initialize() is pending, and the
\* process never exits with a job in flight: when it has exited, either no
\* job was accepted or the handler's continuation after execute has run.
C36_NoJobBeforeInitialized ==
  /\ proc = "starting" => pc = "idle"
  /\ proc = "exited" => pc \in {"idle", "done"}

\* C37: when the worker process has exited after a job, no appendChunk
\* write the job dispatched is still in flight: each has succeeded or has
\* had its failure logged.
C37_ChunkWritesSettleBeforeExit ==
  proc = "exited" => dbWrite # "inFlight"

(***************************************************************************)
(* The front door on its own: POST /execute (src/src/server.ts l.111-177)  *)
(* with the reply of each request recorded in calls.  The handler of       *)
(* src/unified-worker/src/server.ts l.151-198 has the same checks in the   *)
(* same order.                                                             *)
(***************************************************************************)
MaxPosts == 3

\* one POST /execute, from the busy check to the reply or to the call of
\* orchestrator.execute
PostObserved ==
  /\ pc = "server"
  /\ proc = "up"
  /\ Len(calls) < MaxPosts
  /\ \E r \in Requests :
       /\ calls' = Append(calls, [reply |-> Reply(r), valid |-> MissingField(r) = "none"])
       /\ IF Reply(r) # 200
            THEN UNCHANGED <<workerStatus, execCount, request>>
            ELSE /\ workerStatus' = StatusAfterAccept
                 /\ execCount' = execCount + 1
                 /\ request' = WithEnvDefaults(r)
  /\ UNCHANGED <<env, faults, proc, exitCode, jobs>>
  /\ UNCHANGED <<sessionId, pc, err, metadata, providerSessionId, workspacePath,
                 provEvents, commitMessage>>
  /\ UNCHANGED <<sinkVars, durableVars>>

InitServer ==
  /\ env \in Envs
  /\ faults = FALSE
  /\ workerStatus = "idle"
  /\ proc = "up"
  /\ exitCode = -1
  /\ jobs = 1
  /\ execCount = 0
  /\ request = NoRequest
  /\ sessionId = -1
  /\ pc = "server"
  /\ err = NoError
  /\ metadata = NoMetadata
  /\ providerSessionId = "none"
  /\ workspacePath = "root"
  /\ provEvents = <<>>
  /\ calls = <<>>
  /\ commitMessage = "none"
  /\ stream = <<>>
  /\ ended = FALSE
  /\ transport = "open"
  /\ chunkIndex = 0
  /\ dir = NoDir
  /\ logFails = 0
  /\ storage = [s \in SessionIdSet |-> NoDir]
  /\ dbChunks = <<>>
  /\ dbStatus = <<>>
  /\ dbWrite = "none"
  /\ volume = EmptyVolume
  /\ remote = {}

SpecServer == InitServer /\ [][PostObserved]_vars

\* the requests answered with one of the given statuses
Replied(statuses) == {i \in 1..Len(calls) : calls[i].reply \in statuses}

\* the step answers a request with 429 or 400
Rejects == calls' # calls /\ calls'[Len(calls')].reply \in {429, 400}

RejectionChangesNothing ==
  Rejects => workerStatus' = workerStatus /\ execCount' = execCount /\ request' = request

\* C38: a POST /execute rejected with 429 or 400 leaves the worker status
\* unchanged and causes no call of Orchestrator.execute: execute is called
\* once per request answered with the event stream, a request that arrives
\* at a busy worker is answered with 429, and after 400 rejections an idle
\* worker is still idle and accepts the next request with the required
\* fields.
C38_RejectedRequestChangesNothing ==
  /\ [][RejectionChangesNothing]_vars
  /\ [](execCount = Cardinality(Replied({200})))
  /\ [](\A i \in Replied({429, 200}) : (i \in Replied({429})) = (\E j \in Replied({200}) : j < i))
  /\ [](\A i \in Replied({400}) :
          (Replied({200}) \cap 1..i = {}) =>
             /\ (i = Len(calls) => workerStatus = "idle")
             /\ (i < Len(calls) /\ calls[i + 1].valid => calls[i + 1].reply = 200))

\* a request is rejected with 400, the next is accepted, the third finds
\* the worker busy
C38_Witness ==
  /\ Len(calls) = 3
  /\ calls[1].reply = 400
  /\ calls[2].reply = 200
  /\ calls[3].reply = 429
  /\ workerStatus = "busy"
  /\ execCount = 1

(***************************************************************************)
(* The volume-based worker started on a volume that already holds a        *)
(* session without repository: its directory, and the metadata file as     *)
(* SessionManager.saveMetadata writes the record of createMetadata.  The   *)
(* external collaborators do not fail.                                     *)
(***************************************************************************)
StoredSession == 0

VolumeWithStoredSession ==
  writeMetadata(createSessionWorkspace(EmptyVolume, StoredSession), StoredSession,
                createMetadata(StoredSession, ClaudeCode))

InitStored ==
  /\ env = [provider |-> Undefined, authentication |-> AuthUndefined]
  /\ faults = FALSE
  /\ workerStatus = "idle"
  /\ proc = "up"
  /\ exitCode = -1
  /\ jobs = 1
  /\ execCount = 0
  /\ request = NoRequest
  /\ sessionId = -1
  /\ pc = "idle"
  /\ err = NoError
  /\ metadata = NoMetadata
  /\ providerSessionId = "none"
  /\ workspacePath = "root"
  /\ provEvents = <<>>
  /\ calls = <<>>
  /\ commitMessage = "none"
  /\ stream = <<>>
  /\ ended = FALSE
  /\ transport = "open"
  /\ chunkIndex = 0
  /\ dir = NoDir
  /\ logFails = 0
  /\ storage = [s \in SessionIdSet |-> NoDir]
  /\ dbChunks = <<>>
  /\ dbStatus = <<>>
  /\ dbWrite = "none"
  /\ volume = VolumeWithStoredSession
  /\ remote = {BranchMain, BranchFeature}

SpecStored == InitStored /\ [][NextVolume]_vars

\* the job resumes a session and has loaded metadata without repository info
ResumedWithoutRepositoryInfo ==
  /\ VolumeResuming
  /\ metadata # NoMetadata
  /\ ~metadata.github.present

\* C39: a job that resumes a session whose metadata have no repository
\* info never fails the workspace recovery: it runs in the session root,
\* which exists, it starts no recovery clone, and no job ever fails with
\* "no GitHub metadata available for recovery".
C39_NoRecoveryFailureWithoutRepositoryInfo ==
  /\ err # MsgNoGithubMetadata
  /\ ResumedWithoutRepositoryInfo =>
       /\ workspacePath = getSessionWorkspace(sessionId)
       /\ ~WorkspaceRecoveryFails
       /\ VolumeCallPositions("pullRepository") = {}
       /\ pc # "volumeRecover"

\* a job has resumed the stored session without repository in its session
\* root and has invoked the capability there
C39_Witness ==
  /\ ResumedWithoutRepositoryInfo
  /\ sessionId = StoredSession
  /\ workspacePath = getSessionWorkspace(StoredSession)
  /\ VolumeCallPositions("provider.execute") # {}
  /\ pc = "returned"

====
